---- MODULE Spec2Model ----
(***************************************************************************)
(* A model of gonc's reverse SSH tunnel (package tunnel), of its circuit   *)
(* breaker and backoff runner (package internal/retry), of the port        *)
(* scanner (package internal/core) and of the SSH dialer and forward       *)
(* tunnel (packages internal/transport and tunnel), and of the two byte    *)
(* forwarders, bridgeConns (package tunnel) and BidirectionalCopy (package *)
(* util), of the configuration's validation and port parsing (package      *)
(* config), and of the mode builder and the listen mode (package           *)
(* internal/core).                                                         *)
(*                                                                         *)
(* Every section of code that runs under rt.mu, and every call that does   *)
(* not block, is one atomic step.  Blocking calls (Accept, the SSH         *)
(* handshake, the WaitGroup wait, a select) are steps whose guard is the   *)
(* condition that unblocks them.  The peer and the network are the         *)
(* environment: they open channels, let a client's transport die or stall, *)
(* decide the outcome of a dial and cancel the caller's token.             *)
(***************************************************************************)
EXTENDS Integers, Sequences, FiniteSets, TLC

\* ---------------------------------------------------------------- bounds
MaxClients == 2      \* SSH clients dialled over the tunnel's life
MaxConns == 2        \* forwarded-tcpip channels the peer opens
NumClosers == 2      \* concurrent callers of Close()
MaxDialFailures == 1 \* attempts in a row that the network lets fail on its own
NumCallers == 2      \* concurrent callers of CircuitBreaker.Execute
MaxThreshold == 2    \* largest MaxFailures and HalfOpenMax configured
MaxResetTimeout == 2 \* largest ResetTimeout configured (clock ticks)
MaxClock == 5        \* clock ticks observed
MaxCalls == 6        \* Execute calls observed
MaxBudget == 3       \* largest Backoff.MaxAttempts configured
MaxBoCalls == 4      \* attempts observed of one Backoff.Do
MaxPorts == 3        \* ports given to one ScanPorts call
MaxHandshakes == 2   \* SSH handshakes that succeed on one SSHDialer
NumDialers == 2      \* concurrent callers of one SSHDialer
MaxExpand == 3       \* widest port range that is expanded
MaxArgs == 2         \* port specifications on one command line
MaxDials == 3        \* clients that connect to one ListenMode
MaxBytes == 2        \* bytes one peer sends on one connection
MaxConcurrentScans == 2 \* capacity of ScanPorts' semaphore, scaled down from
                     \* config.DefaultMaxConcurrentScans = 100

\* ------------------------------------------------------ program constants
maxAttempts == 10    \* reconnect: const maxAttempts
maxBackoff == 60     \* reconnect: const maxBackoff (seconds)

Nil == 0
ClientIds == 1..MaxClients
ConnIds == 1..MaxConns
CloserIds == 1..NumClosers
CallerIds == 1..NumCallers
SshClientIds == 1..MaxHandshakes
DialerIds == 1..NumDialers

VARIABLES
    config,           \* ReverseTunnelConfig: the three behaviour switches
    parentCancelled,  \* the token passed to Start is cancelled
    cancelFn,         \* rt.cancel != nil
    cancelled,        \* rt.ctx is done
    closed,           \* rt.closed
    client,           \* rt.client   (Nil or a client id)
    listener,         \* rt.listener (Nil or a listener id = its client's id)
    wg,               \* rt.wg counter
    clients,          \* every ssh.Client ever dialled
    lnState,          \* every sshForwardListener: "none" | "open" | "closed"
    incoming,         \* per client, the forwarded-tcpip handler's channel
    nOpened,          \* channels the peer has opened so far
    start,            \* the Start call
    watcher,          \* the context-watcher goroutine of Start
    al,               \* the acceptLoop goroutine (and reconnect inside it)
    ka,               \* the keepaliveLoop goroutines
    conns,            \* forwarded-tcpip channels and their handleConnection
    closers,          \* the Close calls
    metrics,          \* metrics.Collector counters
    mu,               \* rt.mu: "free", or "held" across a call that blocks
    kaFailPending,    \* a keepalive failed and no reconnect has run since
    cb,               \* the CircuitBreaker's fields
    now,              \* the clock read by time.Now and time.Since
    callers,          \* the callers of CircuitBreaker.Execute
    nCalls,           \* Execute calls made so far
    obs,              \* outcomes in a row seen since the breaker last changed state
    hook,             \* the calls of OnStateChange: their number and the last arguments
    bo,               \* one call of Backoff.Do, its token and its callable
    scan,             \* one call of ScanPorts, its probes and its token
    sshd,             \* an SSHDialer, its SSHTunnel, the SSH clients and monitors
    dialers,          \* the callers of the SSHDialer and of its tunnel
    br,               \* one call of bridgeConns, its two connections and peers
    bc,               \* one call of BidirectionalCopy, its connection and streams
    cf,               \* a Config, what Validate returned for it and what Build made
    lm,               \* one call of ListenMode.Run on TCP, its listener and tasks
    ps                \* a port specification and what ParsePortSpec made of it

tvars == <<config, parentCancelled, cancelFn, cancelled, closed, client,
           listener, wg, clients, lnState, incoming, nOpened, start, watcher,
           al, ka, conns, closers, metrics, mu, kaFailPending>>

cbvars == <<cb, now, callers, nCalls, obs, hook>>

xvars == <<bo, scan, sshd, dialers>>

yvars == <<br, bc, cf, lm, ps>>

vars == <<tvars, cbvars, xvars, yvars>>

\* ------------------------------------------------------------ configuration
\* ReverseTunnelConfig.  KeepAlive stands for KeepAliveInterval > 0.  The
\* forward is requested for (RemoteBindAddress, RemotePort).
ConfigSet == [CheckGatewayPorts : BOOLEAN, KeepAlive : BOOLEAN, AutoReconnect : BOOLEAN]
RemoteBindAddress == ""
RemotePort == 9000

\* ----------------------------------------------------------------- metrics
\* The counters of metrics.Collector (its timestamps and the text of the last
\* error are not part of the state).
NewMetrics == [connectionsActive |-> 0, connectionsTotal |-> 0,
               errorsTotal |-> 0, tunnelReconnects |-> 0]
ConnectionOpened(m) == [m EXCEPT !.connectionsActive = @ + 1, !.connectionsTotal = @ + 1]
ConnectionClosed(m) == [m EXCEPT !.connectionsActive = @ - 1]
TunnelReconnect(m) == [m EXCEPT !.tunnelReconnects = @ + 1]
RecordError(m) == [m EXCEPT !.errorsTotal = @ + 1]

\* ------------------------------------------------- forwarded-tcpip payloads
\* forwardedTCPPayload as the peer sends it; ok = FALSE is a payload that
\* ssh.Unmarshal cannot decode.
Payloads ==
    { [ok |-> TRUE,  Addr |-> "",        Port |-> 9000, OriginAddr |-> "10.0.0.7",  OriginPort |-> 5555],
      [ok |-> TRUE,  Addr |-> "0.0.0.0", Port |-> 9000, OriginAddr |-> "10.0.0.7",  OriginPort |-> 5555],
      [ok |-> TRUE,  Addr |-> "",        Port |-> 80,   OriginAddr |-> "localhost", OriginPort |-> 5556],
      [ok |-> FALSE, Addr |-> "",        Port |-> 0,    OriginAddr |-> "",          OriginPort |-> 0] }
\* The payload of a peer that echoes the requested bind address and port.
EchoPayload == [ok |-> TRUE, Addr |-> "", Port |-> 9000, OriginAddr |-> "10.0.0.7",
                OriginPort |-> 5555]
NoPayload == [ok |-> FALSE, Addr |-> "", Port |-> 0, OriginAddr |-> "", OriginPort |-> 0]

\* net.ParseIP: the address for a textual IP address, nil for anything else.
ParseIP(s) == IF s \in {"10.0.0.7", "0.0.0.0"} THEN <<"ip", s>> ELSE <<"nil">>
EmptyTCPAddr == [IP |-> <<"nil">>, Port |-> 0]

\* The remote address Accept gives the connection.
RemoteAddrOf(p) ==
    IF p.ok THEN [IP |-> ParseIP(p.OriginAddr), Port |-> p.OriginPort]
    ELSE EmptyTCPAddr

\* What the client library's own forward list does with a channel (it looks
\* the payload's bind address and port up among the forwards it requested).
AcceptResultMatching(bindAddr, bindPort, p) ==
    IF p.ok /\ p.Addr = bindAddr /\ p.Port = bindPort
    THEN [kind |-> "conn", raddr |-> RemoteAddrOf(p)]
    ELSE [kind |-> "rejected", raddr |-> EmptyTCPAddr]

\* sshForwardListener.Accept on a channel taken from l.incoming whose
\* newCh.Accept() succeeded.
AcceptResult(bindAddr, bindPort, p) ==
    [kind |-> "conn", raddr |-> RemoteAddrOf(p)]

\* ------------------------------------------------------------- ssh.Client
\* st: the handle ("none" before the dial, "open", "closed" after Close()).
\* alive: the transport is up.  stalled: the peer has gone silent, so a
\* request that wants a reply waits until the transport ends.  handler: who
\* holds the forwarded-tcpip channel type.  fwd: the peer forwards to us.
NoClient == [st |-> "none", alive |-> FALSE, stalled |-> FALSE, handler |-> "none",
             fwd |-> FALSE]
NewClient == [st |-> "open", alive |-> TRUE, stalled |-> FALSE, handler |-> "none",
              fwd |-> FALSE]

\* client.Close(): the transport ends, and with it the handler's channel.
ClientClose(cs, c) == [cs EXCEPT ![c].st = "closed", ![c].alive = FALSE, ![c].fwd = FALSE]

\* client.HandleChannelOpen("forwarded-tcpip") returns nil when the channel
\* type already has a handler.
HandlerFree(cs, c) == cs[c].handler = "none"

\* client.Listen of the library: on first use it takes the forwarded-tcpip
\* handler for itself (handleForwardsOnce), whatever the server then says.
LibraryListen(cs, c) ==
    IF HandlerFree(cs, c) THEN [cs EXCEPT ![c].handler = "library"] ELSE cs

\* sshForwardListener.Close: close(done) once, then a cancel-tcpip-forward
\* request that waits for the peer's reply (wantReply = true).
ListenerClose(ls, l) == [ls EXCEPT ![l] = "closed"]
ForwardCancelled(cs, l) == [cs EXCEPT ![l].fwd = FALSE]

\* A request with wantReply = true on client c returns only when the peer
\* answers or the transport ends.
RequestWaits(cs, c) == cs[c].alive /\ cs[c].stalled

\* listener.Close() on l does not return yet: its first call (sync.Once)
\* is waiting for the reply to cancel-tcpip-forward.
ListenerCloseWaits(l) == l # Nil /\ lnState[l] = "open" /\ RequestWaits(clients, l)

NextClientId == Cardinality({c \in ClientIds : clients[c].st # "none"}) + 1
CanDial == NextClientId \in ClientIds

\* ---------------------------------------------------------- CircuitBreaker
\* time.Time{}: the zero value of lastFailure lies before every clock value.
ZeroTime == 0 - MaxClock - MaxResetTimeout - 1

\* CircuitBreakerConfig with positive fields (NewCircuitBreaker replaces the
\* others by the defaults).
CircuitBreakerConfigs ==
    [MaxFailures : 1..MaxThreshold, ResetTimeout : 1..MaxResetTimeout,
     HalfOpenMax : 1..MaxThreshold]

NewCircuitBreaker(cfg) ==
    [state |-> "closed", failures |-> 0, successes |-> 0, lastFailure |-> ZeroTime,
     maxFailures |-> cfg.MaxFailures, resetTimeout |-> cfg.ResetTimeout,
     halfOpenMax |-> cfg.HalfOpenMax]

\* transition(to): the state changes (and OnStateChange runs) only if from # to.
transition(b, to) == [b EXCEPT !.state = to]

\* The calls of cfg.OnStateChange so far: how many, and the arguments of the
\* last one (before the first call the breaker is Closed).
NoCallbacks == [n |-> 0, from |-> "closed", to |-> "closed"]

\* A transition that calls OnStateChange whether or not the state changes.
transitionCallbackAlways(h, from, to) ==
    IF to = "none" THEN h
    ELSE [n |-> h.n + 1, from |-> from, to |-> to]

\* transition(to) as its callers see the callback: nothing when it is not
\* called ("none") or when from == to, else cb.onStateChange(from, to).
transitionCallback(h, from, to) ==
    IF to = "none" \/ from = to THEN h
    ELSE [n |-> h.n + 1, from |-> from, to |-> to]

\* time.Since(cb.lastFailure) > cb.resetTimeout
ResetTimeoutElapsed(b, t) == t - b.lastFailure > b.resetTimeout

\* beforeRequest: the breaker it leaves and the error it returns ("" for nil).
\* The error is built by fmt.Errorf without %w: its chain holds no sentinel
\* (chain is what errors.Is can match), and its text names the failures and
\* cb.resetTimeout - time.Since(cb.lastFailure).
beforeRequest(b, t) ==
    IF b.state = "open"
    THEN IF ResetTimeoutElapsed(b, t)
         THEN [cb |-> transition(b, "half-open"), err |-> "", chain |-> {}, remaining |-> 0]
         ELSE [cb |-> b, err |-> "circuit open", chain |-> {},
               remaining |-> b.resetTimeout - (t - b.lastFailure)]
    ELSE [cb |-> b, err |-> "", chain |-> {}, remaining |-> 0]

\* The state beforeRequest passes to transition, "none" when it does not
\* call it.
beforeRequestTransition(b, t) ==
    IF b.state = "open" /\ ResetTimeoutElapsed(b, t) THEN "half-open" ELSE "none"

\* The state afterRequest(err) passes to transition, "none" when it does
\* not call it.
afterRequestTransition(b, ok) ==
    IF ~ok
    THEN IF b.state = "half-open" \/ b.failures + 1 >= b.maxFailures THEN "open" ELSE "none"
    ELSE IF b.state = "half-open" /\ b.successes + 1 >= b.halfOpenMax THEN "closed"
    ELSE "none"

\* afterRequest with a success in Closed leaving the failure counter alone.
afterRequestKeepsFailures(b, ok, t) ==
    IF ~ok
    THEN LET f == [b EXCEPT !.failures = @ + 1, !.successes = 0, !.lastFailure = t]
         IN  IF f.state = "half-open" \/ f.failures >= f.maxFailures
             THEN transition(f, "open")
             ELSE f
    ELSE LET s == [b EXCEPT !.successes = @ + 1]
         IN  IF s.state = "half-open" /\ s.successes >= s.halfOpenMax
             THEN transition([s EXCEPT !.failures = 0], "closed")
             ELSE s

\* afterRequest(err), ok standing for err == nil.
afterRequest(b, ok, t) ==
    IF ~ok
    THEN LET f == [b EXCEPT !.failures = @ + 1, !.successes = 0, !.lastFailure = t]
         IN  IF f.state = "half-open" \/ f.failures >= f.maxFailures
             THEN transition(f, "open")
             ELSE f
    ELSE LET s == [b EXCEPT !.successes = @ + 1]
         IN  IF s.state = "half-open"
             THEN IF s.successes >= s.halfOpenMax
                  THEN transition([s EXCEPT !.failures = 0], "closed")
                  ELSE s
             ELSE IF s.state = "closed" THEN [s EXCEPT !.failures = 0]
             ELSE s

\* A caller of Execute: where it is, what its last call returned, and
\* whether beforeRequest admitted it in HalfOpen (a probe).
IdleCaller == [pc |-> "idle", ret |-> "none", chain |-> {}, remaining |-> 0,
               probe |-> FALSE]
NoOutcomes == [fails |-> 0, succs |-> 0]

\* Outcomes in a row since the breaker last changed state.
Observe(o, b, b2, ok) ==
    IF b2.state # b.state THEN NoOutcomes
    ELSE IF ok THEN [fails |-> 0, succs |-> o.succs + 1]
    ELSE [fails |-> o.fails + 1, succs |-> 0]

\* Execute up to the return of beforeRequest: its error is returned at once.
CbBeforeRequest(p) ==
    /\ callers[p].pc = "idle"
    /\ nCalls < MaxCalls
    /\ LET r == beforeRequest(cb, now)
       IN  /\ cb' = r.cb
           /\ callers' = [callers EXCEPT ![p] =
                             IF r.err = ""
                             THEN [IdleCaller EXCEPT !.pc = "admitted",
                                                     !.probe = (r.cb.state = "half-open")]
                             ELSE [IdleCaller EXCEPT !.ret = r.err, !.chain = r.chain,
                                                     !.remaining = r.remaining]]
           /\ obs' = IF r.cb.state # cb.state THEN NoOutcomes ELSE obs
    /\ hook' = transitionCallback(hook, cb.state, beforeRequestTransition(cb, now))
    /\ nCalls' = nCalls + 1
    /\ UNCHANGED <<tvars, now, xvars, yvars>>

\* err := fn(): the callable is invoked.
CbInvoke(p) ==
    /\ callers[p].pc = "admitted"
    /\ callers' = [callers EXCEPT ![p].pc = "running"]
    /\ UNCHANGED <<tvars, cb, now, nCalls, obs, hook, xvars, yvars>>

\* fn returns (nil when ok), afterRequest(err) runs and Execute returns err.
CbAfterRequest(p, ok) ==
    /\ callers[p].pc = "running"
    /\ cb' = afterRequest(cb, ok, now)
    /\ callers' = [callers EXCEPT ![p] =
                      [IdleCaller EXCEPT !.ret = IF ok THEN "nil" ELSE "fn error"]]
    /\ obs' = Observe(obs, cb, cb', ok)
    /\ hook' = transitionCallback(hook, cb.state, afterRequestTransition(cb, ok))
    /\ UNCHANGED <<tvars, now, nCalls, xvars, yvars>>

\* A Reset that only changes the state.
CbResetKeepsCounters ==
    /\ cb' = transition(cb, "closed")
    /\ obs' = NoOutcomes
    /\ hook' = transitionCallback(hook, cb.state, "closed")
    /\ UNCHANGED <<tvars, now, callers, nCalls, xvars, yvars>>

\* Reset(): failures = 0, successes = 0, transition(StateClosed).
CbReset ==
    /\ cb' = transition([cb EXCEPT !.failures = 0, !.successes = 0], "closed")
    /\ obs' = NoOutcomes
    /\ hook' = transitionCallback(hook, cb.state, "closed")
    /\ UNCHANGED <<tvars, now, callers, nCalls, xvars, yvars>>

\* Time passes.
Tick ==
    /\ now < MaxClock
    /\ now' = now + 1
    /\ UNCHANGED <<tvars, cb, callers, nCalls, obs, hook, xvars, yvars>>

\* A breaker nobody uses (the tunnel specifications leave it alone).
CircuitBreakerIdle ==
    /\ cb = NewCircuitBreaker([MaxFailures |-> 5, ResetTimeout |-> 30, HalfOpenMax |-> 2])
    /\ now = 0
    /\ callers = [p \in CallerIds |-> IdleCaller]
    /\ nCalls = 0
    /\ obs = NoOutcomes
    /\ hook = NoCallbacks

CircuitBreakerInit ==
    /\ cb \in {NewCircuitBreaker(cfg) : cfg \in CircuitBreakerConfigs}
    /\ now = 0
    /\ callers = [p \in CallerIds |-> IdleCaller]
    /\ nCalls = 0
    /\ obs = NoOutcomes
    /\ hook = NoCallbacks

\* ----------------------------------------------------------------- Backoff
\* An error is the sequence of the layers of its chain, outermost first; the
\* last layer is an error without Unwrap.  <<>> is nil.
NilError == <<>>

\* Permanent(err): nil stays nil, otherwise &PermanentError{Err: err}.
Permanent(err) == IF err = NilError THEN NilError ELSE <<"PermanentError">> \o err

\* fmt.Errorf("...: %w", err) with the given text.
Errorf(text, err) == <<text>> \o err

\* errors.Unwrap(err): the next layer; nil for an error without Unwrap.
Unwrap(err) == IF Len(err) > 1 THEN Tail(err) ELSE NilError

\* IsPermanent(err): errors.As finds a *PermanentError anywhere in the chain.
IsPermanent(err) == \E i \in 1..Len(err) : err[i] = "PermanentError"

\* What the callable may return: nil, a plain error, a wrapped plain error,
\* a permanent error, and a permanent error wrapped with more context.
FnResults ==
    {NilError, <<"fail">>, Errorf("context", <<"fail">>), Permanent(<<"fatal">>),
     Errorf("context", Permanent(<<"fatal">>))}

\* A multiplier as a fraction; 0 stands for an unset field.
Multipliers == {[num |-> 0, den |-> 1], [num |-> 3, den |-> 2], [num |-> 2, den |-> 1]}

\* The Backoff struct; durations are in milliseconds.
BackoffConfigs ==
    [InitialDelay : {0, 8, 12}, MaxDelay : {0, 10}, Multiplier : Multipliers,
     MaxAttempts : 0..MaxBudget, Jitter : BOOLEAN]

\* DefaultBackoff()
DefaultBackoff ==
    [InitialDelay |-> 1000, MaxDelay |-> 60000, Multiplier |-> [num |-> 2, den |-> 1],
     MaxAttempts |-> 10, Jitter |-> TRUE]

\* addJitter(d): a duration in [d - d/4, d + d/4], at least a millisecond;
\* the two ends and the middle stand for the interval.
addJitter(d) ==
    LET quarter == d \div 4
        atLeast(x) == IF x < 1 THEN 1 ELSE x
    IN  {atLeast(d - quarter), atLeast(d), atLeast(d + quarter)}

\* delay = time.Duration(float64(delay) * multiplier), capped at maxDelay.
NextDelay(delay, multiplier, maxDelay) ==
    LET d == (delay * multiplier.num) \div multiplier.den
    IN  IF d > maxDelay THEN maxDelay ELSE d

\* A Backoff on which Do has not been called, and the token given to Do.
NewBackoff(cfg) ==
    [cfg |-> cfg, ctx |-> "", pc |-> "idle", attempt |-> 0, delay |-> 0,
     multiplier |-> cfg.Multiplier, maxDelay |-> 0, wait |-> 0, fired |-> FALSE,
     calls |-> <<>>, sleeps |-> 0, err |-> NilError, failedOnly |-> TRUE,
     ret |-> NilError]

\* Do up to its loop: the zero fields are replaced by the defaults.
BoDo ==
    /\ bo.pc = "idle"
    /\ bo' = [bo EXCEPT !.pc = "call", !.attempt = 1,
                        !.delay = IF bo.cfg.InitialDelay = 0 THEN 1000
                                  ELSE bo.cfg.InitialDelay,
                        !.multiplier = IF bo.cfg.Multiplier.num <= 0
                                       THEN [num |-> 2, den |-> 1]
                                       ELSE bo.cfg.Multiplier,
                        !.maxDelay = IF bo.cfg.MaxDelay = 0 THEN 60000
                                     ELSE bo.cfg.MaxDelay]
    /\ UNCHANGED <<tvars, cbvars, scan, sshd, dialers, yvars>>

\* An attempt budget that allows one attempt more than MaxAttempts.
BudgetSpentLate(budget, attempt) == budget > 0 /\ attempt > budget

\* b.MaxAttempts > 0 && attempt >= b.MaxAttempts
BudgetSpent(budget, attempt) == budget > 0 /\ attempt >= budget

\* err := fn(attempt) and what Do makes of it, up to the select: nil and a
\* permanent error return, the attempt budget returns, otherwise the wait is
\* chosen and the timer started.
BoCall(err) ==
    /\ bo.pc = "call"
    /\ Len(bo.calls) < MaxBoCalls
    /\ \E wait \in IF bo.cfg.Jitter THEN addJitter(bo.delay) ELSE {bo.delay} :
         LET b == [bo EXCEPT !.calls = Append(@, bo.attempt), !.err = err,
                             !.failedOnly = (@ /\ err # NilError /\ ~IsPermanent(err))]
         IN  bo' = IF err = NilError
                   THEN [b EXCEPT !.pc = "done", !.ret = NilError]
                   ELSE IF IsPermanent(err)
                   THEN [b EXCEPT !.pc = "done", !.ret = Unwrap(err)]
                   ELSE IF BudgetSpent(bo.cfg.MaxAttempts, bo.attempt)
                   THEN [b EXCEPT !.pc = "done",
                                  !.ret = Errorf("max retries exceeded", err)]
                   ELSE [b EXCEPT !.pc = "sleep", !.wait = wait, !.fired = FALSE,
                                  !.sleeps = @ + 1]
    /\ UNCHANGED <<tvars, cbvars, scan, sshd, dialers, yvars>>

\* The timer of time.After(wait) fires.  A select that is ready is woken
\* before its other channel becomes ready too.
BoTimerFires ==
    /\ bo.pc = "sleep"
    /\ ~bo.fired
    /\ bo.ctx = ""
    /\ bo' = [bo EXCEPT !.fired = TRUE]
    /\ UNCHANGED <<tvars, cbvars, scan, sshd, dialers, yvars>>

\* select: <-time.After(wait); the delay grows and the loop goes on.
BoWakeTimer ==
    /\ bo.pc = "sleep"
    /\ bo.fired
    /\ bo' = [bo EXCEPT !.pc = "call", !.attempt = @ + 1, !.fired = FALSE,
                        !.delay = NextDelay(bo.delay, bo.multiplier, bo.maxDelay)]
    /\ UNCHANGED <<tvars, cbvars, scan, sshd, dialers, yvars>>

\* A Do that takes the next attempt when its token is cancelled.
BoWakeCancelRetries ==
    /\ bo.pc = "sleep"
    /\ bo.ctx # ""
    /\ bo' = [bo EXCEPT !.pc = "call", !.attempt = @ + 1, !.fired = FALSE,
                        !.delay = NextDelay(bo.delay, bo.multiplier, bo.maxDelay)]
    /\ UNCHANGED <<tvars, cbvars, scan, sshd, dialers, yvars>>

\* select: <-ctx.Done(); Do returns "retry cancelled" wrapping ctx.Err().
BoWakeCancel ==
    /\ bo.pc = "sleep"
    /\ bo.ctx # ""
    /\ bo' = [bo EXCEPT !.pc = "done", !.ret = Errorf("retry cancelled", <<bo.ctx>>)]
    /\ UNCHANGED <<tvars, cbvars, scan, sshd, dialers, yvars>>

\* The token given to Do is cancelled, or its deadline passes.
BoCancel(cause) ==
    /\ bo.ctx = ""
    /\ bo.pc # "done"
    /\ bo' = [bo EXCEPT !.ctx = cause]
    /\ UNCHANGED <<tvars, cbvars, scan, sshd, dialers, yvars>>

\* A Backoff nobody uses.
BackoffIdle == bo = NewBackoff(DefaultBackoff)

BackoffInit == bo \in {NewBackoff(cfg) : cfg \in BackoffConfigs}

\* --------------------------------------------------------------- ScanPorts
\* The port lists given to ScanPorts: every sequence of at most MaxPorts
\* ports out of three, duplicates included.
PortLists == UNION {[1..n -> {22, 80, 443}] : n \in 0..MaxPorts}

\* ScanResult{}: the zero value that make([]ScanResult, n) fills in.
ZeroScanResult == [Port |-> 0, Open |-> FALSE, Err |-> ""]

\* ScanPorts up to its loop: results, sem and wg are made; no probe runs.
NewScan(ports) ==
    [ports |-> ports, ctxDone |-> FALSE, next |-> 1,
     pc |-> [i \in 1..Len(ports) |-> "none"],
     dialed |-> [i \in 1..Len(ports) |-> "none"],
     results |-> [i \in 1..Len(ports) |-> ZeroScanResult],
     sem |-> 0, wg |-> 0, returned |-> FALSE, ret |-> <<>>]

\* One turn of the for loop: wg.Add(1) and go func(idx, p).
ScSpawn ==
    /\ ~scan.returned
    /\ scan.next <= Len(scan.ports)
    /\ scan' = [scan EXCEPT !.next = @ + 1, !.wg = @ + 1, !.pc[scan.next] = "sem"]
    /\ UNCHANGED <<tvars, cbvars, bo, sshd, dialers, yvars>>

\* A probe that does not wait for a slot.
ScAcquireUnbounded(i) ==
    /\ scan.pc[i] = "sem"
    /\ scan' = [scan EXCEPT !.sem = @ + 1, !.pc[i] = "dial"]
    /\ UNCHANGED <<tvars, cbvars, bo, sshd, dialers, yvars>>

\* sem <- struct{}{}: the send goes through when the buffer has room; then
\* the probe's token is made and dial is called.
ScAcquire(i) ==
    /\ scan.pc[i] = "sem"
    /\ scan.sem < MaxConcurrentScans
    /\ scan' = [scan EXCEPT !.sem = @ + 1, !.pc[i] = "dial"]
    /\ UNCHANGED <<tvars, cbvars, bo, sshd, dialers, yvars>>

\* dial returns (a connection when ok): results[idx] is written, and the
\* deferred cancel(), <-sem and wg.Done() run.
ScDial(i, ok) ==
    /\ scan.pc[i] = "dial"
    /\ scan' = [scan EXCEPT
                  !.dialed[i] = IF ok THEN "ok" ELSE "failed",
                  !.results[i] = IF ok THEN [Port |-> scan.ports[i], Open |-> TRUE, Err |-> ""]
                                 ELSE [Port |-> scan.ports[i], Open |-> FALSE,
                                       Err |-> "dial error"],
                  !.sem = @ - 1, !.wg = @ - 1, !.pc[i] = "done"]
    /\ UNCHANGED <<tvars, cbvars, bo, sshd, dialers, yvars>>

\* The token given to ScanPorts is cancelled.
ScCancel ==
    /\ ~scan.ctxDone
    /\ ~scan.returned
    /\ scan' = [scan EXCEPT !.ctxDone = TRUE]
    /\ UNCHANGED <<tvars, cbvars, bo, sshd, dialers, yvars>>

\* A ScanPorts that also returns when its token is cancelled.
ScReturnOnCancel ==
    /\ ~scan.returned
    /\ scan.next > Len(scan.ports)
    /\ scan.wg = 0 \/ scan.ctxDone
    /\ scan' = [scan EXCEPT !.returned = TRUE, !.ret = scan.results]
    /\ UNCHANGED <<tvars, cbvars, bo, sshd, dialers, yvars>>

\* wg.Wait() after the loop, and return results.
ScReturn ==
    /\ ~scan.returned
    /\ scan.next > Len(scan.ports)
    /\ scan.wg = 0
    /\ scan' = [scan EXCEPT !.returned = TRUE, !.ret = scan.results]
    /\ UNCHANGED <<tvars, cbvars, bo, sshd, dialers, yvars>>

\* A scanner nobody uses.
ScanIdle == scan = NewScan(<<>>)

ScanInit == scan \in {NewScan(ports) : ports \in PortLists}

\* ---------------------------------------------------- SSHDialer, SSHTunnel
\* NewSSHDialer and NewSSHTunnel: connected, client and alive are zero.
\* clients holds every ssh.Client a handshake has made ("none" before), and
\* monitors the monitor task started with each of them.
NewSSHDialer ==
    [connected |-> FALSE, mu |-> Nil, client |-> Nil, alive |-> FALSE,
     clients |-> [c \in SshClientIds |-> "none"],
     monitors |-> [c \in SshClientIds |-> [pc |-> "none", cl |-> Nil]]]

IdleDialer == [pc |-> "idle", cl |-> Nil, ret |-> "none", chain |-> {}]

\* The client the next successful handshake makes.
NextSshClient == CHOOSE c \in SshClientIds :
                    sshd.clients[c] = "none" /\ \A o \in 1..(c - 1) : sshd.clients[o] # "none"

\* An SSHDialer.connect that does not take d.mu.
SdConnectNoMutex(p) ==
    /\ dialers[p].pc = "idle"
    /\ IF sshd.connected
       THEN /\ dialers' = [dialers EXCEPT ![p] = [IdleDialer EXCEPT !.pc = "dial"]]
            /\ UNCHANGED sshd
       ELSE /\ dialers' = [dialers EXCEPT ![p] = [IdleDialer EXCEPT !.pc = "handshake"]]
            /\ UNCHANGED sshd
    /\ UNCHANGED <<tvars, cbvars, bo, scan, sshd, yvars>>

\* SSHDialer.connect up to the handshake: under d.mu, a connected dialer
\* returns nil at once; otherwise tunnel.Connect begins with d.mu held.
SdConnect(p) ==
    /\ dialers[p].pc = "idle"
    /\ sshd.mu = Nil
    /\ IF sshd.connected
       THEN /\ dialers' = [dialers EXCEPT ![p] = [IdleDialer EXCEPT !.pc = "dial"]]
            /\ UNCHANGED sshd
       ELSE /\ dialers' = [dialers EXCEPT ![p] = [IdleDialer EXCEPT !.pc = "handshake"]]
            /\ sshd' = [sshd EXCEPT !.mu = p]
    /\ UNCHANGED <<tvars, cbvars, bo, scan, yvars>>

\* tunnel.Connect returns.  On an error connect returns "tunnel: ..." and
\* so does Dial.  Otherwise the new client is stored and the tunnel marked
\* alive under t.mu, the monitor is started, d.connected is set and Dial
\* goes on to tunnel.Dial.
SdHandshake(p, ok) ==
    /\ dialers[p].pc = "handshake"
    /\ ok => \E c \in SshClientIds : sshd.clients[c] = "none"
    /\ IF ok
       THEN LET c == NextSshClient
            IN  /\ sshd' = [sshd EXCEPT !.clients[c] = "open", !.client = c,
                                        !.alive = TRUE, !.connected = TRUE, !.mu = Nil,
                                        !.monitors[c] = [pc |-> "start", cl |-> Nil]]
                /\ dialers' = [dialers EXCEPT ![p].pc = "dial"]
       ELSE /\ sshd' = [sshd EXCEPT !.mu = Nil]
            /\ dialers' = [dialers EXCEPT ![p] = [IdleDialer EXCEPT !.ret = "tunnel: connect"]]
    /\ UNCHANGED <<tvars, cbvars, bo, scan, yvars>>

\* An SSHTunnel.Dial that looks at the client only.
StDialIgnoresAlive(p) ==
    /\ dialers[p].pc \in {"idle", "dial"}
    /\ dialers' = [dialers EXCEPT ![p] =
                      IF sshd.client = Nil
                      THEN [IdleDialer EXCEPT !.ret = "not connected",
                                              !.chain = {"ErrNotConnected"}]
                      ELSE [IdleDialer EXCEPT !.pc = "open", !.cl = sshd.client]]
    /\ UNCHANGED <<tvars, cbvars, bo, scan, sshd, yvars>>

\* SSHTunnel.Dial up to client.Dial, called by SSHDialer.Dial or directly:
\* client and alive are read under t.mu; ErrNotConnected when the tunnel is
\* not alive or has no client.
StDial(p) ==
    /\ dialers[p].pc \in {"idle", "dial"}
    /\ dialers' = [dialers EXCEPT ![p] =
                      IF ~sshd.alive \/ sshd.client = Nil
                      THEN [IdleDialer EXCEPT !.ret = "not connected",
                                              !.chain = {"ErrNotConnected"}]
                      ELSE [IdleDialer EXCEPT !.pc = "open", !.cl = sshd.client]]
    /\ UNCHANGED <<tvars, cbvars, bo, scan, sshd, yvars>>

\* client.Dial(network, address) returns: a connection when the client is
\* open and the gateway opens the channel, otherwise "tunnel dial ..."
\* wrapping the client's error.
StDialOpen(p, ok) ==
    /\ dialers[p].pc = "open"
    /\ ok => sshd.clients[dialers[p].cl] = "open"
    /\ dialers' = [dialers EXCEPT ![p] =
                      IF ok THEN [IdleDialer EXCEPT !.ret = "conn", !.cl = dialers[p].cl]
                      ELSE [IdleDialer EXCEPT !.ret = "tunnel dial", !.chain = {"client error"}]]
    /\ UNCHANGED <<tvars, cbvars, bo, scan, sshd, yvars>>

\* SSHTunnel.Close(): alive = false; a client is closed and forgotten.
TunnelClose(d) ==
    [d EXCEPT !.alive = FALSE, !.client = Nil,
              !.clients = IF d.client # Nil THEN [d.clients EXCEPT ![d.client] = "closed"]
                          ELSE d.clients]

\* SSHDialer.Close(): under d.mu, a connected dialer is marked not
\* connected and closes its tunnel.
SdClose(p) ==
    /\ dialers[p].pc = "idle"
    /\ sshd.mu = Nil
    /\ sshd' = IF sshd.connected THEN TunnelClose([sshd EXCEPT !.connected = FALSE])
               ELSE sshd
    /\ dialers' = [dialers EXCEPT ![p] = [IdleDialer EXCEPT !.ret = "closed"]]
    /\ UNCHANGED <<tvars, cbvars, bo, scan, yvars>>

\* SSHTunnel.Close() called on the tunnel itself.
StClose(p) ==
    /\ dialers[p].pc = "idle"
    /\ sshd' = TunnelClose(sshd)
    /\ dialers' = [dialers EXCEPT ![p] = [IdleDialer EXCEPT !.ret = "closed"]]
    /\ UNCHANGED <<tvars, cbvars, bo, scan, yvars>>

\* The transport of an SSH client ends.
SshClientEnds(c) ==
    /\ sshd.clients[c] = "open"
    /\ sshd' = [sshd EXCEPT !.clients[c] = "ended"]
    /\ UNCHANGED <<tvars, cbvars, bo, scan, dialers, yvars>>

\* monitor up to client.Wait(): t.client is read; nil returns.
StMonitorStart(m) ==
    /\ sshd.monitors[m].pc = "start"
    /\ sshd' = [sshd EXCEPT !.monitors[m] = IF sshd.client = Nil
                                            THEN [pc |-> "done", cl |-> Nil]
                                            ELSE [pc |-> "wait", cl |-> sshd.client]]
    /\ UNCHANGED <<tvars, cbvars, bo, scan, dialers, yvars>>

\* A monitor that returns without touching alive.
StMonitorForgets(m) ==
    /\ sshd.monitors[m].pc = "wait"
    /\ sshd.clients[sshd.monitors[m].cl] \in {"ended", "closed"}
    /\ sshd' = [sshd EXCEPT !.monitors[m].pc = "done"]
    /\ UNCHANGED <<tvars, cbvars, bo, scan, dialers, yvars>>

\* client.Wait() returns because the client has ended; alive = false.
StMonitorEnd(m) ==
    /\ sshd.monitors[m].pc = "wait"
    /\ sshd.clients[sshd.monitors[m].cl] \in {"ended", "closed"}
    /\ sshd' = [sshd EXCEPT !.monitors[m].pc = "done", !.alive = FALSE]
    /\ UNCHANGED <<tvars, cbvars, bo, scan, dialers, yvars>>

\* A dialer nobody uses.
SSHDialerIdle ==
    /\ sshd = NewSSHDialer
    /\ dialers = [p \in DialerIds |-> IdleDialer]

\* ------------------------------------------------------------- bridgeConns
\* The two connections given to bridgeConns, named after its parameters.
\* The copy that reads from x writes to Other(x).
Sides == {"a", "b"}
Other(x) == IF x = "a" THEN "b" ELSE "a"
Bytes == {1, 2}

\* One io.Copy goroutine: the chunk it has read and not yet written, the
\* bytes it has written, and how it ended ("eof": Read returned io.EOF,
\* "error": Read or Write failed on a closed connection).
NewCopy == [pc |-> "read", buf |-> <<>>, n |-> 0, end |-> "none"]

\* bridgeConns up to <-ctx.Done(): the derived token is made and both
\* goroutines are started.  sent[x] is what the peer of x has written to it,
\* rd[x] how much of it has been read, recv[x] what has been written to x.
NewBridge ==
    [ctxParent |-> FALSE, done |-> FALSE,
     closed |-> [x \in Sides |-> FALSE],
     sent |-> [x \in Sides |-> <<>>], eof |-> [x \in Sides |-> FALSE],
     rd |-> [x \in Sides |-> 0], recv |-> [x \in Sides |-> <<>>],
     cp |-> [x \in Sides |-> NewCopy],
     main |-> "wait", ret |-> [x \in Sides |-> 0]]

\* The peer of connection x writes one byte.
BrPeerSend(x, byte) ==
    /\ br.main # "returned"
    /\ ~br.closed[x]
    /\ ~br.eof[x]
    /\ Len(br.sent[x]) < MaxBytes
    /\ br' = [br EXCEPT !.sent[x] = Append(@, byte)]
    /\ UNCHANGED <<tvars, cbvars, xvars, bc, cf, lm, ps>>

\* The peer of connection x closes its sending side.
BrPeerEOF(x) ==
    /\ br.main # "returned"
    /\ ~br.eof[x]
    /\ br' = [br EXCEPT !.eof[x] = TRUE]
    /\ UNCHANGED <<tvars, cbvars, xvars, bc, cf, lm, ps>>

\* The token given to bridgeConns is cancelled; the derived token follows.
BrCancel ==
    /\ br.main # "returned"
    /\ ~br.ctxParent
    /\ br' = [br EXCEPT !.ctxParent = TRUE, !.done = TRUE]
    /\ UNCHANGED <<tvars, cbvars, xvars, bc, cf, lm, ps>>

\* The goroutine's tail: aToB = n (or bToA = n), cancel() and wg.Done().
CopyEnds(b, x, how) ==
    [b EXCEPT !.cp[x] = [pc |-> "done", buf |-> <<>>, n |-> b.cp[x].n, end |-> how],
              !.ret[x] = b.cp[x].n, !.done = TRUE]

\* io.Copy reads from x: an error when x is closed, else k of the bytes that
\* have arrived, else io.EOF when the peer has finished; otherwise Read
\* blocks.
BrRead(x, k) ==
    /\ br.cp[x].pc = "read"
    /\ IF br.closed[x]
       THEN k = 1 /\ br' = CopyEnds(br, x, "error")
       ELSE IF br.rd[x] < Len(br.sent[x])
       THEN /\ k \in 1..(Len(br.sent[x]) - br.rd[x])
            /\ br' = [br EXCEPT !.cp[x].pc = "write",
                                !.cp[x].buf = SubSeq(br.sent[x], br.rd[x] + 1, br.rd[x] + k),
                                !.rd[x] = @ + k]
       ELSE k = 1 /\ br.eof[x] /\ br' = CopyEnds(br, x, "eof")
    /\ UNCHANGED <<tvars, cbvars, xvars, bc, cf, lm, ps>>

\* A copy that counts the bytes it has read.
BrWriteCountsRead(x) ==
    /\ br.cp[x].pc = "write"
    /\ IF br.closed[Other(x)]
       THEN br' = CopyEnds([br EXCEPT !.cp[x].n = @ + Len(br.cp[x].buf)], x, "error")
       ELSE br' = [br EXCEPT !.recv[Other(x)] = @ \o br.cp[x].buf,
                             !.cp[x].n = @ + Len(br.cp[x].buf),
                             !.cp[x].buf = <<>>, !.cp[x].pc = "read"]
    /\ UNCHANGED <<tvars, cbvars, xvars, bc, cf, lm, ps>>

\* io.Copy writes the chunk to the other connection and adds what was
\* written to its count; on a closed connection nothing is written and the
\* copy ends.
BrWrite(x) ==
    /\ br.cp[x].pc = "write"
    /\ IF br.closed[Other(x)]
       THEN br' = CopyEnds(br, x, "error")
       ELSE br' = [br EXCEPT !.recv[Other(x)] = @ \o br.cp[x].buf,
                             !.cp[x].n = @ + Len(br.cp[x].buf),
                             !.cp[x].buf = <<>>, !.cp[x].pc = "read"]
    /\ UNCHANGED <<tvars, cbvars, xvars, bc, cf, lm, ps>>

\* <-ctx.Done() and a.Close().
BrCloseA ==
    /\ br.main = "wait"
    /\ br.done
    /\ br' = [br EXCEPT !.closed["a"] = TRUE, !.main = "closeB"]
    /\ UNCHANGED <<tvars, cbvars, xvars, bc, cf, lm, ps>>

\* A bridgeConns that leaves b open.
BrCloseBSkipped ==
    /\ br.main = "closeB"
    /\ br' = [br EXCEPT !.main = "wgwait"]
    /\ UNCHANGED <<tvars, cbvars, xvars, bc, cf, lm, ps>>

\* b.Close().
BrCloseB ==
    /\ br.main = "closeB"
    /\ br' = [br EXCEPT !.closed["b"] = TRUE, !.main = "wgwait"]
    /\ UNCHANGED <<tvars, cbvars, xvars, bc, cf, lm, ps>>

\* wg.Wait() and return aToB, bToA.
BrReturn ==
    /\ br.main = "wgwait"
    /\ \A x \in Sides : br.cp[x].pc = "done"
    /\ br' = [br EXCEPT !.main = "returned"]
    /\ UNCHANGED <<tvars, cbvars, xvars, bc, cf, lm, ps>>

\* No bridge is running.
BridgeIdle == br = [NewBridge EXCEPT !.main = "none"]

\* ------------------------------------------------------- BidirectionalCopy
\* One goroutine of BidirectionalCopy: err is what its io.Copy returned
\* ("nil" after io.EOF, "closed" on the closed connection).
NewPump == [pc |-> "read", buf |-> <<>>, err |-> "none"]

\* BidirectionalCopy up to <-ctx.Done().  tcp says whether conn is a
\* *net.TCPConn.  rAvail counts the bytes waiting in the local reader r and
\* rEOF says that r has reached its end; netSent is what the remote has
\* written, netRd how much of it has been read, toNet the bytes written to
\* conn, out what has been written to w.
NewBidirectionalCopy(tcp) ==
    [tcp |-> tcp, ctxParent |-> FALSE, done |-> FALSE, closed |-> FALSE,
     wrClosed |-> FALSE,
     rAvail |-> 0, rTotal |-> 0, rEOF |-> FALSE, toNet |-> 0,
     netSent |-> <<>>, netRd |-> 0, netEOF |-> FALSE, out |-> <<>>,
     up |-> NewPump, down |-> NewPump, main |-> "wait", ret |-> "none"]

\* A byte arrives at the local reader (the user types, the pipe delivers).
BcLocalInput ==
    /\ bc.main # "returned"
    /\ ~bc.rEOF
    /\ bc.rTotal < MaxBytes
    /\ bc' = [bc EXCEPT !.rAvail = @ + 1, !.rTotal = @ + 1]
    /\ UNCHANGED <<tvars, cbvars, xvars, br, cf, lm, ps>>

\* The local reader reaches its end (the piped input is finite).
BcLocalEOF ==
    /\ bc.main # "returned"
    /\ ~bc.rEOF
    /\ bc' = [bc EXCEPT !.rEOF = TRUE]
    /\ UNCHANGED <<tvars, cbvars, xvars, br, cf, lm, ps>>

\* The remote writes one byte to the connection.
BcRemoteSend(byte) ==
    /\ bc.main # "returned"
    /\ ~bc.closed
    /\ ~bc.netEOF
    /\ Len(bc.netSent) < MaxBytes
    /\ bc' = [bc EXCEPT !.netSent = Append(@, byte)]
    /\ UNCHANGED <<tvars, cbvars, xvars, br, cf, lm, ps>>

\* The remote ends its sending side.
BcRemoteEOF ==
    /\ bc.main # "returned"
    /\ ~bc.netEOF
    /\ bc' = [bc EXCEPT !.netEOF = TRUE]
    /\ UNCHANGED <<tvars, cbvars, xvars, br, cf, lm, ps>>

\* The token given to BidirectionalCopy is cancelled.
BcCancel ==
    /\ bc.main # "returned"
    /\ ~bc.ctxParent
    /\ bc' = [bc EXCEPT !.ctxParent = TRUE, !.done = TRUE]
    /\ UNCHANGED <<tvars, cbvars, xvars, br, cf, lm, ps>>

\* A reader goroutine that cancels the copy at the reader's EOF too.
BcUpReadCancels ==
    /\ bc.up.pc = "read"
    /\ IF bc.rAvail > 0
       THEN bc' = [bc EXCEPT !.up.pc = "write", !.up.buf = [i \in 1..bc.rAvail |-> 1],
                             !.rAvail = 0]
       ELSE /\ bc.rEOF
            /\ bc' = [bc EXCEPT !.up = [pc |-> "done", buf |-> <<>>, err |-> "nil"],
                                !.wrClosed = (@ \/ (bc.tcp /\ ~bc.closed)),
                                !.done = TRUE]
    /\ UNCHANGED <<tvars, cbvars, xvars, br, cf, lm, ps>>

\* io.Copy(conn, r) reads from r: the bytes waiting, or io.EOF; otherwise
\* Read blocks, whatever happens to conn.  At io.EOF io.Copy returns nil:
\* tc.CloseWrite() on a TCP connection, errCh <- nil, no cancel().
BcUpRead ==
    /\ bc.up.pc = "read"
    /\ IF bc.rAvail > 0
       THEN bc' = [bc EXCEPT !.up.pc = "write", !.up.buf = [i \in 1..bc.rAvail |-> 1],
                             !.rAvail = 0]
       ELSE /\ bc.rEOF
            /\ bc' = [bc EXCEPT !.up = [pc |-> "done", buf |-> <<>>, err |-> "nil"],
                                !.wrClosed = (@ \/ (bc.tcp /\ ~bc.closed))]
    /\ UNCHANGED <<tvars, cbvars, xvars, br, cf, lm, ps>>

\* io.Copy(conn, r) writes the chunk to conn.  On the closed connection it
\* returns the error: tc.CloseWrite() (which fails), errCh <- err, cancel().
BcUpWrite ==
    /\ bc.up.pc = "write"
    /\ IF bc.closed
       THEN bc' = [bc EXCEPT !.up = [pc |-> "done", buf |-> <<>>, err |-> "closed"],
                             !.done = TRUE]
       ELSE bc' = [bc EXCEPT !.toNet = @ + Len(bc.up.buf), !.up.buf = <<>>,
                             !.up.pc = "read"]
    /\ UNCHANGED <<tvars, cbvars, xvars, br, cf, lm, ps>>

\* io.Copy(w, conn) reads from conn: an error when conn is closed, else k of
\* the bytes that have arrived, else io.EOF when the remote has ended.  When
\* io.Copy returns: errCh <- err and cancel().
BcDownRead(k) ==
    /\ bc.down.pc = "read"
    /\ IF bc.closed
       THEN /\ k = 1
            /\ bc' = [bc EXCEPT !.down = [pc |-> "done", buf |-> <<>>, err |-> "closed"],
                                !.done = TRUE]
       ELSE IF bc.netRd < Len(bc.netSent)
       THEN /\ k \in 1..(Len(bc.netSent) - bc.netRd)
            /\ bc' = [bc EXCEPT !.down.pc = "write",
                                !.down.buf = SubSeq(bc.netSent, bc.netRd + 1, bc.netRd + k),
                                !.netRd = @ + k]
       ELSE /\ k = 1
            /\ bc.netEOF
            /\ bc' = [bc EXCEPT !.down = [pc |-> "done", buf |-> <<>>, err |-> "nil"],
                                !.done = TRUE]
    /\ UNCHANGED <<tvars, cbvars, xvars, br, cf, lm, ps>>

\* io.Copy(w, conn) writes the chunk to w.
BcDownWrite ==
    /\ bc.down.pc = "write"
    /\ bc' = [bc EXCEPT !.out = @ \o bc.down.buf, !.down.buf = <<>>, !.down.pc = "read"]
    /\ UNCHANGED <<tvars, cbvars, xvars, br, cf, lm, ps>>

\* <-ctx.Done() and conn.Close().
BcClose ==
    /\ bc.main = "wait"
    /\ bc.done
    /\ bc' = [bc EXCEPT !.closed = TRUE, !.main = "wgwait"]
    /\ UNCHANGED <<tvars, cbvars, xvars, br, cf, lm, ps>>

\* isHarmless: nil, io.EOF and the errors of a closed connection.
isHarmless(err) == err \in {"nil", "closed"}

\* wg.Wait(), close(errCh) and the first error that is not harmless, or nil.
BcReturn ==
    /\ bc.main = "wgwait"
    /\ bc.up.pc = "done"
    /\ bc.down.pc = "done"
    /\ bc' = [bc EXCEPT !.main = "returned",
                        !.ret = IF \E e \in {bc.up.err, bc.down.err} : ~isHarmless(e)
                                THEN CHOOSE e \in {bc.up.err, bc.down.err} : ~isHarmless(e)
                                ELSE "nil"]
    /\ UNCHANGED <<tvars, cbvars, xvars, br, cf, lm, ps>>

\* No copy is running.
CopyIdle == bc = [NewBidirectionalCopy(FALSE) EXCEPT !.main = "none"]

\* ------------------------------------------------------------------ Config
\* PortRange{Start, End}.
PortRange(s, e) == [Start |-> s, End |-> e]

\* The fields of config.Config that Validate and Build read.  Timeouts, key
\* paths, user names and verbosity do not take part in either.
Configs ==
    [Host : {"", "example.com", "10.0.0.7"}, Port : {0, 80},
     Ports : {<<>>, <<PortRange(80, 81), PortRange(22, 22)>>},
     LocalPort : {0, 8080}, Listen : BOOLEAN, UDP : BOOLEAN, NoDNS : BOOLEAN,
     ZeroIO : BOOLEAN,
     TunnelEnabled : BOOLEAN, TunnelHost : {"", "gateway"},
     ReverseTunnelEnabled : BOOLEAN, ReverseTunnelHost : {"", "gateway"},
     RemotePort : {-1, 0, 9000, 65536},
     Execute : {"", "/bin/sh"}, Command : {"", "ls"}]

\* The error Validate returns: nil, or &ncerr.ConfigError{Field, Message}.
NoConfigError == [kind |-> "nil", Field |-> "", Message |-> ""]
ConfigError(field, message) == [kind |-> "ConfigError", Field |-> field, Message |-> message]

\* A Validate that lets UDP through with a reverse tunnel.
ValidateAllowsUDP(c) ==
    IF c.Listen /\ c.LocalPort = 0
    THEN ConfigError("port", "required in listen mode")
    ELSE IF c.Listen /\ c.ZeroIO
    THEN ConfigError("zero-io", "listen mode and zero-I/O mode are mutually exclusive")
    ELSE IF c.Listen /\ c.TunnelEnabled
    THEN ConfigError("tunnel", "listen mode through a forward SSH tunnel (-T) is not supported")
    ELSE IF ~c.Listen /\ c.Host = "" /\ ~c.ReverseTunnelEnabled
    THEN ConfigError("host", "hostname is required")
    ELSE IF ~c.Listen /\ c.Port = 0 /\ Len(c.Ports) = 0 /\ ~c.ReverseTunnelEnabled
    THEN ConfigError("port", "destination port is required")
    ELSE IF c.ReverseTunnelEnabled /\ ~c.Listen
    THEN ConfigError("reverse-tunnel", "reverse tunnel requires listen mode")
    ELSE IF c.ReverseTunnelEnabled /\ c.RemotePort = 0
    THEN ConfigError("remote-port", "required with -R")
    ELSE IF c.ReverseTunnelEnabled /\ (c.RemotePort < 1 \/ c.RemotePort > 65535)
    THEN ConfigError("remote-port", "out of range 1-65535")
    ELSE IF c.ReverseTunnelEnabled /\ c.ReverseTunnelHost = ""
    THEN ConfigError("reverse-tunnel", "tunnel host is required")
    ELSE IF c.ReverseTunnelEnabled /\ c.TunnelEnabled
    THEN ConfigError("tunnel", "-T and -R are mutually exclusive")
    ELSE IF c.Execute # "" /\ c.Command # ""
    THEN ConfigError("exec", "-e and -c are mutually exclusive")
    ELSE IF c.UDP /\ c.TunnelEnabled
    THEN ConfigError("udp", "UDP is not supported through SSH tunnels")
    ELSE IF c.TunnelEnabled /\ c.TunnelHost = ""
    THEN ConfigError("tunnel", "tunnel host is required")
    ELSE NoConfigError

\* Config.Validate: the first check that fails, in the order of the code.
Validate(c) ==
    IF c.Listen /\ c.LocalPort = 0
    THEN ConfigError("port", "required in listen mode")
    ELSE IF c.Listen /\ c.ZeroIO
    THEN ConfigError("zero-io", "listen mode and zero-I/O mode are mutually exclusive")
    ELSE IF c.Listen /\ c.TunnelEnabled
    THEN ConfigError("tunnel", "listen mode through a forward SSH tunnel (-T) is not supported")
    ELSE IF ~c.Listen /\ c.Host = "" /\ ~c.ReverseTunnelEnabled
    THEN ConfigError("host", "hostname is required")
    ELSE IF ~c.Listen /\ c.Port = 0 /\ Len(c.Ports) = 0 /\ ~c.ReverseTunnelEnabled
    THEN ConfigError("port", "destination port is required")
    ELSE IF c.ReverseTunnelEnabled /\ ~c.Listen
    THEN ConfigError("reverse-tunnel", "reverse tunnel requires listen mode")
    ELSE IF c.ReverseTunnelEnabled /\ c.RemotePort = 0
    THEN ConfigError("remote-port", "required with -R")
    ELSE IF c.ReverseTunnelEnabled /\ (c.RemotePort < 1 \/ c.RemotePort > 65535)
    THEN ConfigError("remote-port", "out of range 1-65535")
    ELSE IF c.ReverseTunnelEnabled /\ c.ReverseTunnelHost = ""
    THEN ConfigError("reverse-tunnel", "tunnel host is required")
    ELSE IF c.ReverseTunnelEnabled /\ c.TunnelEnabled
    THEN ConfigError("tunnel", "-T and -R are mutually exclusive")
    ELSE IF c.ReverseTunnelEnabled /\ c.UDP
    THEN ConfigError("udp", "reverse tunnel does not support UDP")
    ELSE IF c.Execute # "" /\ c.Command # ""
    THEN ConfigError("exec", "-e and -c are mutually exclusive")
    ELSE IF c.UDP /\ c.TunnelEnabled
    THEN ConfigError("udp", "UDP is not supported through SSH tunnels")
    ELSE IF c.TunnelEnabled /\ c.TunnelHost = ""
    THEN ConfigError("tunnel", "tunnel host is required")
    ELSE NoConfigError

\* ------------------------------------------------------------------- Build
\* buildDialer: the transport.Dialer made for the configuration.
buildDialer(c) ==
    IF c.TunnelEnabled THEN "SSHDialer" ELSE IF c.UDP THEN "UDPDialer" ELSE "TCPDialer"

\* buildCapability: the per-connection behaviour.
buildCapability(c) == IF c.Execute # "" \/ c.Command # "" THEN "Exec" ELSE "Relay"

\* What Build returns: the mode (its type, and the dialer and capability it
\* was given, "none" where the mode has no such field) and the error.
BuiltMode(kind, dialer, cap) == [Mode |-> kind, Dialer |-> dialer, Capability |-> cap, err |-> ""]
BuildError(text) == [Mode |-> "nil", Dialer |-> "none", Capability |-> "none", err |-> text]

\* buildConnect and buildScan both refuse a host that is not an IP address
\* when DNS is disabled.
NoDNSRefuses(c) == c.NoDNS /\ ParseIP(c.Host) = <<"nil">>

\* A Build that asks for listen before the reverse tunnel.
BuildListenFirst(c) ==
    IF c.Listen THEN BuiltMode("ListenMode", "none", buildCapability(c))
    ELSE IF c.ReverseTunnelEnabled THEN BuiltMode("ReverseTunnelMode", "none", "none")
    ELSE IF NoDNSRefuses(c) THEN BuildError("cannot parse host as an IP address")
    ELSE IF c.ZeroIO THEN BuiltMode("ScanMode", buildDialer(c), "none")
    ELSE BuiltMode("ConnectMode", buildDialer(c), buildCapability(c))

\* Build: the switch over the configuration and the builder it calls.
Build(c) ==
    IF c.ReverseTunnelEnabled THEN BuiltMode("ReverseTunnelMode", "none", "none")
    ELSE IF c.Listen THEN BuiltMode("ListenMode", "none", buildCapability(c))
    ELSE IF NoDNSRefuses(c) THEN BuildError("cannot parse host as an IP address")
    ELSE IF c.ZeroIO THEN BuiltMode("ScanMode", buildDialer(c), "none")
    ELSE BuiltMode("ConnectMode", buildDialer(c), buildCapability(c))

\* A configuration as the command line leaves it.
NewConfigRun(c) == [cfg |-> c, pc |-> "new", verr |-> NoConfigError, built |-> BuildError("")]

\* cfg.Validate() is called.
CfValidate ==
    /\ cf.pc = "new"
    /\ cf' = [cf EXCEPT !.pc = "validated", !.verr = Validate(cf.cfg)]
    /\ UNCHANGED <<tvars, cbvars, xvars, br, bc, lm, ps>>

\* Build(cfg, logger) is called on a configuration that Validate accepted.
CfBuild ==
    /\ cf.pc = "validated"
    /\ cf.verr = NoConfigError
    /\ cf' = [cf EXCEPT !.pc = "built", !.built = Build(cf.cfg)]
    /\ UNCHANGED <<tvars, cbvars, xvars, br, bc, lm, ps>>

\* No configuration is being processed.
ConfigIdle == cf = [NewConfigRun(CHOOSE c \in Configs : TRUE) EXCEPT !.pc = "none"]

\* -------------------------------------------------------------- ListenMode
\* listenTCP after net.Listen has succeeded and the goroutine that waits
\* for ctx.Done() is started.  dialed counts the clients that have
\* connected, accepted the connections Accept has returned; tasks[i] is the
\* serveConn call for the i-th accepted connection.
NewListenMode(keepOpen) ==
    [KeepOpen |-> keepOpen, ctxDone |-> FALSE, lnClosed |-> FALSE, watcher |-> "waiting",
     dialed |-> 0, accepted |-> 0, tasks |-> [i \in 1..MaxDials |-> "none"],
     main |-> "accept", ret |-> "none"]

\* A client connects to the listening port; the connection waits in the
\* listener's queue.
LmDial ==
    /\ ~lm.lnClosed
    /\ lm.main # "none"
    /\ lm.dialed < MaxDials
    /\ lm' = [lm EXCEPT !.dialed = @ + 1]
    /\ UNCHANGED <<tvars, cbvars, xvars, br, bc, cf, ps>>

\* The token given to Run is cancelled.
LmCancel ==
    /\ lm.main \in {"accept", "serve"}
    /\ ~lm.ctxDone
    /\ lm' = [lm EXCEPT !.ctxDone = TRUE]
    /\ UNCHANGED <<tvars, cbvars, xvars, br, bc, cf, ps>>

\* The goroutine of listenTCP: <-ctx.Done() and ln.Close().
LmWatcher ==
    /\ lm.watcher = "waiting"
    /\ lm.ctxDone
    /\ lm' = [lm EXCEPT !.watcher = "done", !.lnClosed = TRUE]
    /\ UNCHANGED <<tvars, cbvars, xvars, br, bc, cf, ps>>

\* A listenTCP that serves every connection itself.
LmAcceptServesInline ==
    /\ lm.main = "accept"
    /\ IF lm.lnClosed
       THEN lm' = [lm EXCEPT !.main = "returned",
                             !.ret = IF lm.ctxDone THEN "nil" ELSE "accept error"]
       ELSE /\ lm.accepted < lm.dialed
            /\ lm' = [lm EXCEPT !.accepted = @ + 1, !.tasks[lm.accepted + 1] = "serving",
                                !.main = "serve"]
    /\ UNCHANGED <<tvars, cbvars, xvars, br, bc, cf, ps>>

\* One turn of the loop.  ln.Accept() returns the next connection of the
\* queue, or an error once the listener is closed: then nil if the token is
\* done, else the error (and the deferred ln.Close()).  With KeepOpen the
\* connection gets its own serveConn goroutine and the loop goes on;
\* without it listenTCP calls serveConn itself.
LmAccept ==
    /\ lm.main = "accept"
    /\ IF lm.lnClosed
       THEN lm' = [lm EXCEPT !.main = "returned",
                             !.ret = IF lm.ctxDone THEN "nil" ELSE "accept error"]
       ELSE /\ lm.accepted < lm.dialed
            /\ lm' = [lm EXCEPT !.accepted = @ + 1, !.tasks[lm.accepted + 1] = "serving",
                                !.main = IF lm.KeepOpen THEN "accept" ELSE "serve"]
    /\ UNCHANGED <<tvars, cbvars, xvars, br, bc, cf, ps>>

\* serveConn of connection i returns what Capability.Handle returned (nil
\* when ok), after the deferred conn.Close().  Without KeepOpen that is
\* what listenTCP returns, after the deferred ln.Close().
LmServeEnd(i, ok) ==
    /\ lm.tasks[i] = "serving"
    /\ LET res == IF ok THEN "nil" ELSE "handle error"
       IN  IF lm.main = "serve"
           THEN lm' = [lm EXCEPT !.tasks[i] = res, !.main = "returned", !.ret = res,
                                 !.lnClosed = TRUE]
           ELSE lm' = [lm EXCEPT !.tasks[i] = res]
    /\ UNCHANGED <<tvars, cbvars, xvars, br, bc, cf, ps>>

\* No listen mode runs.
ListenIdle == lm = [NewListenMode(FALSE) EXCEPT !.main = "none", !.watcher = "none"]

\* ----------------------------------------------------------- ParsePortSpec
\* A Go string is the sequence of its characters.
DigitChars == <<"0", "1", "2", "3", "4", "5", "6", "7", "8", "9">>
IsDigit(c) == \E d \in 1..10 : DigitChars[d] = c
DigitOf(c) == (CHOOSE d \in 1..10 : DigitChars[d] = c) - 1

\* The value of a sequence of decimal digits.
RECURSIVE DigitsValue(_)
DigitsValue(s) ==
    IF s = <<>> THEN 0
    ELSE DigitsValue(SubSeq(s, 1, Len(s) - 1)) * 10 + DigitOf(s[Len(s)])

\* strconv.Atoi: an optional sign and at least one digit, nothing else.
\* (No string here is long enough to leave the range of int.)
Atoi(s) ==
    LET signed == s # <<>> /\ s[1] \in {"+", "-"}
        body == IF signed THEN Tail(s) ELSE s
    IN  IF body = <<>> \/ \E i \in 1..Len(body) : ~IsDigit(body[i])
        THEN [ok |-> FALSE, val |-> 0]
        ELSE [ok |-> TRUE,
              val |-> IF signed /\ s[1] = "-" THEN 0 - DigitsValue(body)
                      ELSE DigitsValue(body)]

\* strings.Contains(s, "-") and strings.SplitN(s, "-", 2).
Contains(s, c) == \E i \in 1..Len(s) : s[i] = c
SplitN2(s, c) ==
    LET i == CHOOSE k \in 1..Len(s) : s[k] = c /\ \A j \in 1..(k - 1) : s[j] # c
    IN  <<SubSeq(s, 1, i - 1), SubSeq(s, i + 1, Len(s))>>

\* ParsePortSpec: the range and the error ("" for nil).
ParsePortSpec(spec) ==
    IF Contains(spec, "-")
    THEN LET parts == SplitN2(spec, "-")
             startN == Atoi(parts[1])
             endN == Atoi(parts[2])
         IN  IF ~startN.ok THEN [pr |-> PortRange(0, 0), err |-> "invalid port range start"]
             ELSE IF ~endN.ok THEN [pr |-> PortRange(0, 0), err |-> "invalid port range end"]
             ELSE IF startN.val < 1 \/ endN.val > 65535 \/ startN.val > endN.val
             THEN [pr |-> PortRange(0, 0), err |-> "invalid port range"]
             ELSE [pr |-> PortRange(startN.val, endN.val), err |-> ""]
    ELSE LET port == Atoi(spec)
         IN  IF ~port.ok THEN [pr |-> PortRange(0, 0), err |-> "invalid port"]
             ELSE IF port.val < 1 \/ port.val > 65535
             THEN [pr |-> PortRange(0, 0), err |-> "port out of range 1-65535"]
             ELSE [pr |-> PortRange(port.val, port.val), err |-> ""]

\* The loop of Expand: for p := pr.Start; p <= pr.End; p++ { append }.
RECURSIVE ExpandLoop(_, _, _)
ExpandLoop(p, end, out) ==
    IF p <= end THEN ExpandLoop(p + 1, end, Append(out, p)) ELSE out

\* An Expand that leaves the last port out.
ExpandExclusive(pr) == ExpandLoop(pr.Start, pr.End - 1, <<>>)

\* PortRange.Expand.
Expand(pr) == ExpandLoop(pr.Start, pr.End, <<>>)

\* Config.AllPorts: the loop over c.Ports from index i on.
RECURSIVE AllPortsLoop(_, _, _)
AllPortsLoop(ports, i, out) ==
    IF i <= Len(ports) THEN AllPortsLoop(ports, i + 1, out \o Expand(ports[i])) ELSE out

AllPorts(ports) == AllPortsLoop(ports, 1, <<>>)

\* The decimal text of an integer, as a command line spells it.
RECURSIVE Decimal(_)
Decimal(n) ==
    IF n < 0 THEN <<"-">> \o Decimal(0 - n)
    ELSE IF n < 10 THEN <<DigitChars[n + 1]>>
    ELSE Decimal(n \div 10) \o <<DigitChars[(n % 10) + 1]>>

\* The numbers the port specifications are written with: both ends of the
\* legal range, their outer neighbours and a few small ports.
PortNumbers == {0, 1, 3, 65535, 65536}
RangeSpec(a, b) == Decimal(a) \o <<"-">> \o Decimal(b)

\* The port arguments of a command line: ranges "a-b", single ports, and
\* text that is no number.
PortSpecs ==
    {RangeSpec(a, b) : a \in PortNumbers, b \in PortNumbers}
        \cup {Decimal(a) : a \in PortNumbers}
        \cup {<<>>, <<"8", "0", "-">>, <<"x", "-", "9">>}

\* parsePositional before its loop over the port arguments.
NewPortArgs(args) == [args |-> args, i |-> 1, Ports |-> <<>>, err |-> "", pc |-> "parse",
                      all |-> <<>>]

\* One turn of parsePositional's loop: ParsePortSpec(arg); an error ends
\* the loop, a range is appended to cfg.Ports.
PsParse ==
    /\ ps.pc = "parse"
    /\ IF ps.i > Len(ps.args)
       THEN ps' = [ps EXCEPT !.pc = "parsed"]
       ELSE LET r == ParsePortSpec(ps.args[ps.i])
            IN  IF r.err # ""
                THEN ps' = [ps EXCEPT !.pc = "failed", !.err = r.err]
                ELSE ps' = [ps EXCEPT !.Ports = Append(@, r.pr), !.i = @ + 1]
    /\ UNCHANGED <<tvars, cbvars, xvars, br, bc, cf, lm>>

\* cfg.AllPorts() on the parsed ranges.
PsAllPorts ==
    /\ ps.pc = "parsed"
    /\ \A k \in 1..Len(ps.Ports) : ps.Ports[k].End - ps.Ports[k].Start < MaxExpand
    /\ ps' = [ps EXCEPT !.pc = "expanded", !.all = AllPorts(ps.Ports)]
    /\ UNCHANGED <<tvars, cbvars, xvars, br, bc, cf, lm>>

\* No port specification is being processed.
PortSpecIdle == ps = [NewPortArgs(<<>>) EXCEPT !.pc = "none"]

\* Neither forwarder is in use, no configuration or port specification is
\* being processed and no listen mode runs.
ForwardersIdle == BridgeIdle /\ CopyIdle /\ ConfigIdle /\ ListenIdle /\ PortSpecIdle

\* ------------------------------------------------------------------- Init
NoConn == [pc |-> "none", payload |-> NoPayload, raddr |-> EmptyTCPAddr]
IdleStart == [pc |-> "idle", cl |-> Nil, err |-> ""]
IdleLoop == [pc |-> "none", ln |-> Nil, attempt |-> 0, backoff |-> 0, cl |-> Nil,
             exit |-> "none"]
IdleKeepalive == [pc |-> "none", cl |-> Nil]
IdleCloser == [pc |-> "idle", first |-> FALSE, started |-> FALSE, timedOut |-> FALSE,
               ret |-> "none"]

\* NewReverseTunnel: every field but config, logger and metrics is zero.
NewReverseTunnel ==
    /\ parentCancelled = FALSE
    /\ cancelFn = FALSE
    /\ cancelled = FALSE
    /\ closed = FALSE
    /\ client = Nil
    /\ listener = Nil
    /\ wg = 0
    /\ clients = [c \in ClientIds |-> NoClient]
    /\ lnState = [c \in ClientIds |-> "none"]
    /\ incoming = [c \in ClientIds |-> <<>>]
    /\ nOpened = 0
    /\ start = IdleStart
    /\ watcher = "none"
    /\ al = IdleLoop
    /\ ka = [c \in ClientIds |-> IdleKeepalive]
    /\ conns = [i \in ConnIds |-> NoConn]
    /\ closers = [k \in CloserIds |-> IdleCloser]
    /\ metrics = NewMetrics
    /\ mu = "free"
    /\ kaFailPending = FALSE

TunnelInit ==
    config \in ConfigSet /\ NewReverseTunnel /\ CircuitBreakerIdle /\ BackoffIdle
    /\ ScanIdle /\ SSHDialerIdle /\ ForwardersIdle

\* Start and Close are not run against each other: Start writes rt.ctx and
\* rt.cancel without the mutex, and its callers close the tunnel only after
\* Start has returned.
NoCloseRunning == \A k \in CloserIds : closers[k].pc \in {"idle", "done"}
NoStartRunning == start.pc \in {"idle", "ok", "failed"}

\* ------------------------------------------------------------- environment
\* The caller cancels the token it passed to Start.
ParentCancel ==
    /\ ~parentCancelled
    /\ parentCancelled' = TRUE
    /\ cancelled' = (cancelled \/ cancelFn)
    /\ UNCHANGED <<config, cancelFn, closed, client, listener, wg, clients,
                   lnState, incoming, nOpened, start, watcher, al, ka, conns,
                   closers, metrics, mu, kaFailPending, cbvars, xvars, yvars>>

\* The transport of client c ends (peer gone, network reset).
ClientDies(c) ==
    /\ clients[c].alive
    /\ clients' = [clients EXCEPT ![c].alive = FALSE, ![c].fwd = FALSE]
    /\ UNCHANGED <<config, parentCancelled, cancelFn, cancelled, closed,
                   client, listener, wg, lnState, incoming, nOpened, start,
                   watcher, al, ka, conns, closers, metrics, mu,
                   kaFailPending, cbvars, xvars, yvars>>

\* The peer of client c goes silent while the TCP connection stays up.
PeerStalls(c) ==
    /\ clients[c].alive
    /\ ~clients[c].stalled
    /\ clients' = [clients EXCEPT ![c].stalled = TRUE]
    /\ UNCHANGED <<config, parentCancelled, cancelFn, cancelled, closed,
                   client, listener, wg, lnState, incoming, nOpened, start,
                   watcher, al, ka, conns, closers, metrics, mu,
                   kaFailPending, cbvars, xvars, yvars>>

\* The peer opens a forwarded-tcpip channel with payload p on client c; the
\* mux hands it to the registered handler's channel.
PeerOpensChannel(c, p) ==
    /\ nOpened < MaxConns
    /\ clients[c].alive
    /\ ~clients[c].stalled
    /\ clients[c].fwd
    /\ clients[c].handler = "custom"
    /\ nOpened' = nOpened + 1
    /\ incoming' = [incoming EXCEPT ![c] = Append(@, nOpened + 1)]
    /\ conns' = [conns EXCEPT ![nOpened + 1] = [NoConn EXCEPT !.pc = "queued", !.payload = p]]
    /\ UNCHANGED <<config, parentCancelled, cancelFn, cancelled, closed,
                   client, listener, wg, clients, lnState, start, watcher,
                   al, ka, closers, metrics, mu, kaFailPending, cbvars,
                   xvars, yvars>>

\* ------------------------------------------------------------------- Start
\* rt.ctx, rt.cancel = context.WithCancel(ctx), then dialSSH begins.  With a
\* token that is already cancelled the TCP dial fails at once.
StartBegin ==
    /\ start.pc = "idle"
    /\ NoCloseRunning
    /\ ~closed
    /\ cancelFn' = TRUE
    /\ cancelled' = parentCancelled
    /\ start' = IF parentCancelled
                THEN [start EXCEPT !.pc = "failed", !.err = "SSH connection"]
                ELSE [start EXCEPT !.pc = "dial"]
    /\ UNCHANGED <<config, parentCancelled, closed, client, listener, wg,
                   clients, lnState, incoming, nOpened, watcher, al, ka,
                   conns, closers, metrics, mu, kaFailPending, cbvars, xvars,
                   yvars>>

\* dialSSH returns an error: rt.cancel() and Start returns it.
StartDialFail ==
    /\ start.pc = "dial"
    /\ cancelled' = TRUE
    /\ start' = [start EXCEPT !.pc = "failed", !.err = "SSH connection"]
    /\ UNCHANGED <<config, parentCancelled, cancelFn, closed, client,
                   listener, wg, clients, lnState, incoming, nOpened,
                   watcher, al, ka, conns, closers, metrics, mu,
                   kaFailPending, cbvars, xvars, yvars>>

\* dialSSH returns a client; rt.client = client under the mutex.  The SSH
\* handshake (ssh.NewClientConn) does not watch the token.
StartDialOk ==
    /\ start.pc = "dial"
    /\ CanDial
    /\ mu = "free"
    /\ clients' = [clients EXCEPT ![NextClientId] = NewClient]
    /\ client' = NextClientId
    /\ start' = [start EXCEPT !.pc = IF config.CheckGatewayPorts THEN "validate" ELSE "listen",
                              !.cl = NextClientId]
    /\ UNCHANGED <<config, parentCancelled, cancelFn, cancelled, closed,
                   listener, wg, lnState, incoming, nOpened, watcher, al, ka,
                   conns, closers, metrics, mu, kaFailPending, cbvars, xvars,
                   yvars>>

\* validateGatewayPorts: rt.client.Listen("tcp", "0.0.0.0:port") of the
\* library and ln.Close(); on an error client.Close(), rt.cancel(), return.
StartValidate(permitted) ==
    LET c == start.cl
        cs == LibraryListen(clients, c)
        ok == clients[c].alive /\ permitted
    IN  /\ start.pc = "validate"
        /\ ~RequestWaits(clients, c)
        /\ clients' = IF ok THEN cs ELSE ClientClose(cs, c)
        /\ cancelled' = (cancelled \/ ~ok)
        /\ start' = IF ok THEN [start EXCEPT !.pc = "listen"]
                    ELSE [start EXCEPT !.pc = "failed", !.err = "GatewayPorts appears disabled"]
        /\ UNCHANGED <<config, parentCancelled, cancelFn, closed, client,
                       listener, wg, lnState, incoming, nOpened, watcher, al,
                       ka, conns, closers, metrics, mu, kaFailPending,
                       cbvars, xvars, yvars>>

\* listenRemoteForward(client, bindAddr, bindPort): its error ("" for none).
ListenRemoteForwardErr(cs, c, granted) ==
    IF ~HandlerFree(cs, c) THEN "forwarded-tcpip handler already registered"
    ELSE IF ~cs[c].alive THEN "EOF"
    ELSE IF ~granted THEN "tcpip-forward request denied by peer"
    ELSE ""

\* listenRemoteForward: what it leaves of the client (the handler stays
\* registered also when the request fails).
ListenRemoteForwardClients(cs, c, granted) ==
    IF ~HandlerFree(cs, c) THEN cs
    ELSE [cs EXCEPT ![c].handler = "custom", ![c].fwd = (cs[c].alive /\ granted)]

\* listenRemoteForward is waiting for the reply to tcpip-forward.
ListenRemoteForwardWaits(cs, c) == HandlerFree(cs, c) /\ RequestWaits(cs, c)

\* go rt.keepaliveLoop() for the client just installed.
SpawnKeepalive(c) ==
    IF config.KeepAlive THEN [ka EXCEPT ![c] = [pc |-> "wait", cl |-> Nil]] ELSE ka

\* Start from listenRemoteForward to its return: on an error client.Close(),
\* rt.cancel(); otherwise rt.listener = listener and the watcher, the
\* keepalive loop and the accept loop are started.
StartListen(granted) ==
    LET c == start.cl
        err == ListenRemoteForwardErr(clients, c, granted)
        cs == ListenRemoteForwardClients(clients, c, granted)
    IN  /\ start.pc = "listen"
        /\ ~ListenRemoteForwardWaits(clients, c)
        /\ err = "" => mu = "free"
        /\ IF err = ""
           THEN /\ clients' = cs
                /\ lnState' = [lnState EXCEPT ![c] = "open"]
                /\ listener' = c
                /\ watcher' = "waiting"
                /\ ka' = SpawnKeepalive(c)
                /\ wg' = wg + (IF config.KeepAlive THEN 2 ELSE 1)
                /\ al' = [IdleLoop EXCEPT !.pc = "top"]
                /\ start' = [start EXCEPT !.pc = "ok"]
                /\ UNCHANGED cancelled
           ELSE /\ clients' = ClientClose(cs, c)
                /\ cancelled' = TRUE
                /\ start' = [start EXCEPT !.pc = "failed", !.err = err]
                /\ UNCHANGED <<lnState, listener, watcher, ka, wg, al>>
        /\ UNCHANGED <<config, parentCancelled, cancelFn, closed, client,
                       incoming, nOpened, conns, closers, metrics, mu,
                       kaFailPending, cbvars, xvars, yvars>>

\* The goroutine of Start that waits for rt.ctx.Done() and then closes
\* rt.listener (once; it does not set the field to nil).
WatcherFire ==
    /\ watcher = "waiting"
    /\ cancelled
    /\ mu = "free"
    /\ IF ListenerCloseWaits(listener)
       THEN /\ lnState' = ListenerClose(lnState, listener)
            /\ mu' = "held"
            /\ watcher' = "closing"
            /\ UNCHANGED clients
       ELSE /\ lnState' = IF listener # Nil THEN ListenerClose(lnState, listener) ELSE lnState
            /\ clients' = IF listener # Nil THEN ForwardCancelled(clients, listener) ELSE clients
            /\ watcher' = "done"
            /\ UNCHANGED mu
    /\ UNCHANGED <<config, parentCancelled, cancelFn, cancelled, closed,
                   client, listener, wg, incoming, nOpened, start, al, ka,
                   conns, closers, metrics, kaFailPending, cbvars, xvars,
                   yvars>>

\* The watcher's listener.Close() returns because the transport has ended.
WatcherFinish ==
    /\ watcher = "closing"
    /\ ~clients[listener].alive
    /\ mu' = "free"
    /\ watcher' = "done"
    /\ UNCHANGED <<config, parentCancelled, cancelFn, cancelled, closed,
                   client, listener, wg, clients, lnState, incoming, nOpened,
                   start, al, ka, conns, closers, metrics, kaFailPending,
                   cbvars, xvars, yvars>>

\* -------------------------------------------------------------- acceptLoop
\* Top of the loop: listener := rt.listener under the mutex; nil ends the loop.
AlTop ==
    /\ al.pc = "top"
    /\ mu = "free"
    /\ al' = IF listener = Nil
             THEN [al EXCEPT !.pc = "exit", !.exit = "no listener"]
             ELSE [al EXCEPT !.pc = "accept", !.ln = listener]
    /\ UNCHANGED <<config, parentCancelled, cancelFn, cancelled, closed,
                   client, listener, wg, clients, lnState, incoming, nOpened,
                   start, watcher, ka, conns, closers, metrics, mu,
                   kaFailPending, cbvars, xvars, yvars>>

\* acceptLoop after Accept returned an error: a cancelled rt.ctx ends the
\* loop; otherwise the error is recorded and AutoReconnect decides.
AfterAcceptErr(a) ==
    IF cancelled THEN [a EXCEPT !.pc = "exit", !.exit = "cancelled"]
    ELSE IF config.AutoReconnect THEN [a EXCEPT !.pc = "reconnect"]
    ELSE [a EXCEPT !.pc = "exit", !.exit = "accept error"]

\* Accept returns io.EOF: l.done is closed, or l.incoming was closed because
\* the client's transport ended.
AlAcceptEOF ==
    /\ al.pc = "accept"
    /\ lnState[al.ln] = "closed" \/ (~clients[al.ln].alive /\ incoming[al.ln] = <<>>)
    /\ al' = AfterAcceptErr(al)
    /\ metrics' = IF cancelled THEN metrics ELSE RecordError(metrics)
    /\ UNCHANGED <<config, parentCancelled, cancelFn, cancelled, closed,
                   client, listener, wg, clients, lnState, incoming, nOpened,
                   start, watcher, ka, conns, closers, mu, kaFailPending,
                   cbvars, xvars, yvars>>

\* Accept takes a channel from l.incoming.  newCh.Accept() fails when the
\* transport has ended; otherwise the connection is handed to a new
\* handleConnection goroutine.
AlAcceptChan ==
    /\ al.pc = "accept"
    /\ incoming[al.ln] # <<>>
    /\ LET i == Head(incoming[al.ln])
           r == AcceptResult(RemoteBindAddress, RemotePort, conns[i].payload)
       IN  /\ incoming' = [incoming EXCEPT ![al.ln] = Tail(@)]
           /\ IF ~clients[al.ln].alive
              THEN /\ conns' = [conns EXCEPT ![i] = [NoConn EXCEPT !.pc = "accept failed"]]
                   /\ al' = AfterAcceptErr(al)
                   /\ metrics' = IF cancelled THEN metrics ELSE RecordError(metrics)
                   /\ UNCHANGED wg
              ELSE IF r.kind = "conn"
              THEN /\ conns' = [conns EXCEPT ![i] = [NoConn EXCEPT !.pc = "dial", !.raddr = r.raddr]]
                   /\ metrics' = ConnectionOpened(metrics)
                   /\ wg' = wg + 1
                   /\ al' = [al EXCEPT !.pc = "top"]
              ELSE /\ conns' = [conns EXCEPT ![i] = [NoConn EXCEPT !.pc = "rejected"]]
                   /\ UNCHANGED <<metrics, wg, al>>
    /\ UNCHANGED <<config, parentCancelled, cancelFn, cancelled, closed,
                   client, listener, clients, lnState, nOpened, start,
                   watcher, ka, closers, mu, kaFailPending, cbvars, xvars,
                   yvars>>

\* An acceptLoop that returns without cancelling the token.
AlExitKeepsToken ==
    /\ al.pc = "exit"
    /\ al' = [IdleLoop EXCEPT !.pc = "done", !.exit = al.exit]
    /\ wg' = wg - 1
    /\ UNCHANGED <<config, parentCancelled, cancelFn, cancelled, closed,
                   client, listener, clients, lnState, incoming, nOpened,
                   start, watcher, ka, conns, closers, metrics, mu,
                   kaFailPending, cbvars, xvars, yvars>>

\* acceptLoop returns: the deferred rt.cancel() and rt.wg.Done().
AlExit ==
    /\ al.pc = "exit"
    /\ al' = [IdleLoop EXCEPT !.pc = "done", !.exit = al.exit]
    /\ cancelled' = TRUE
    /\ wg' = wg - 1
    /\ UNCHANGED <<config, parentCancelled, cancelFn, closed, client,
                   listener, clients, lnState, incoming, nOpened, start,
                   watcher, ka, conns, closers, metrics, mu, kaFailPending,
                   cbvars, xvars, yvars>>

\* --------------------------------------------------------------- reconnect
Min(a, b) == IF a < b THEN a ELSE b

\* reconnect up to its loop: metrics.TunnelReconnect(), then under the mutex
\* close and nil the listener and the client; backoff := 1s, attempt := 1.
ReconnectTeardown ==
    /\ al.pc = "reconnect"
    /\ mu = "free"
    /\ ~ListenerCloseWaits(listener)
    /\ metrics' = TunnelReconnect(metrics)
    /\ lnState' = IF listener # Nil THEN ListenerClose(lnState, listener) ELSE lnState
    /\ clients' = LET cs == IF listener # Nil THEN ForwardCancelled(clients, listener)
                            ELSE clients
                  IN  IF client # Nil THEN ClientClose(cs, client) ELSE cs
    /\ listener' = Nil
    /\ client' = Nil
    /\ kaFailPending' = FALSE
    /\ al' = [al EXCEPT !.pc = "r_check", !.attempt = 1, !.backoff = 1, !.ln = Nil]
    /\ UNCHANGED <<config, parentCancelled, cancelFn, cancelled, closed, wg,
                   incoming, nOpened, start, watcher, ka, conns, closers, mu,
                   cbvars, xvars, yvars>>

\* Head of the for loop: attempt <= maxAttempts, then rt.ctx.Err().
ReconnectCheck ==
    /\ al.pc = "r_check"
    /\ al' = IF al.attempt > maxAttempts
             THEN [al EXCEPT !.pc = "exit", !.exit = "reconnect exhausted"]
             ELSE IF cancelled
             THEN [al EXCEPT !.pc = "exit", !.exit = "reconnect cancelled"]
             ELSE [al EXCEPT !.pc = "r_dial"]
    /\ UNCHANGED <<config, parentCancelled, cancelFn, cancelled, closed,
                   client, listener, wg, clients, lnState, incoming, nOpened,
                   start, watcher, ka, conns, closers, metrics, mu,
                   kaFailPending, cbvars, xvars, yvars>>

\* A next attempt whose wait doubles without a cap.
NextAttemptUncapped(a) ==
    [a EXCEPT !.pc = "r_check", !.attempt = @ + 1, !.backoff = @ * 2, !.cl = Nil]

\* sleepCtx(rt.ctx, backoff); backoff = min(backoff*2, maxBackoff); continue.
NextAttempt(a) ==
    [a EXCEPT !.pc = "r_check", !.attempt = @ + 1,
              !.backoff = Min(@ * 2, maxBackoff), !.cl = Nil]

\* dialSSH fails.  The network lets MaxDialFailures attempts fail on its
\* own; a cancelled token or a gateway that takes no more clients fails
\* every attempt.
ReconnectDialFail ==
    /\ al.pc = "r_dial"
    /\ cancelled \/ ~CanDial \/ al.attempt <= MaxDialFailures
    /\ metrics' = RecordError(metrics)
    /\ al' = NextAttempt(al)
    /\ UNCHANGED <<config, parentCancelled, cancelFn, cancelled, closed,
                   client, listener, wg, clients, lnState, incoming, nOpened,
                   start, watcher, ka, conns, closers, mu, kaFailPending,
                   cbvars, xvars, yvars>>

\* dialSSH returns a client, held in reconnect's local variable.
ReconnectDialOk ==
    /\ al.pc = "r_dial"
    /\ CanDial
    /\ clients' = [clients EXCEPT ![NextClientId] = NewClient]
    /\ al' = [al EXCEPT !.pc = "r_listen", !.cl = NextClientId]
    /\ UNCHANGED <<config, parentCancelled, cancelFn, cancelled, closed,
                   client, listener, wg, lnState, incoming, nOpened, start,
                   watcher, ka, conns, closers, metrics, mu, kaFailPending,
                   cbvars, xvars, yvars>>

\* listenRemoteForward on the new client: on an error client.Close() and the
\* next attempt; otherwise rt.client and rt.listener are set under the
\* mutex, the keepalive loop is started again and reconnect returns nil.
ReconnectListen(granted) ==
    LET c == al.cl
        err == ListenRemoteForwardErr(clients, c, granted)
        cs == ListenRemoteForwardClients(clients, c, granted)
    IN  /\ al.pc = "r_listen"
        /\ ~ListenRemoteForwardWaits(clients, c)
        /\ err = "" => mu = "free"
        /\ IF err = ""
           THEN /\ clients' = cs
                /\ lnState' = [lnState EXCEPT ![c] = "open"]
                /\ client' = c
                /\ listener' = c
                /\ ka' = SpawnKeepalive(c)
                /\ wg' = wg + (IF config.KeepAlive THEN 1 ELSE 0)
                /\ al' = [al EXCEPT !.pc = "top", !.attempt = 0, !.backoff = 0, !.cl = Nil]
                /\ UNCHANGED metrics
           ELSE /\ clients' = ClientClose(cs, c)
                /\ metrics' = RecordError(metrics)
                /\ al' = NextAttempt(al)
                /\ UNCHANGED <<lnState, client, listener, ka, wg>>
        /\ UNCHANGED <<config, parentCancelled, cancelFn, cancelled, closed,
                       incoming, nOpened, start, watcher, conns, closers, mu,
                       kaFailPending, cbvars, xvars, yvars>>

\* ----------------------------------------------------------- keepaliveLoop
\* select: <-rt.ctx.Done() and return.
KaCtxDone(k) ==
    /\ ka[k].pc = "wait"
    /\ cancelled
    /\ ka' = [ka EXCEPT ![k].pc = "done"]
    /\ wg' = wg - 1
    /\ UNCHANGED <<config, parentCancelled, cancelFn, cancelled, closed,
                   client, listener, clients, lnState, incoming, nOpened,
                   start, watcher, al, conns, closers, metrics, mu,
                   kaFailPending, cbvars, xvars, yvars>>

\* select: <-ticker.C; client := rt.client under the mutex; nil returns.
KaTick(k) ==
    /\ ka[k].pc = "wait"
    /\ mu = "free"
    /\ IF client = Nil
       THEN /\ ka' = [ka EXCEPT ![k].pc = "done"]
            /\ wg' = wg - 1
       ELSE /\ ka' = [ka EXCEPT ![k].pc = "send", ![k].cl = client]
            /\ UNCHANGED wg
    /\ UNCHANGED <<config, parentCancelled, cancelFn, cancelled, closed,
                   client, listener, clients, lnState, incoming, nOpened,
                   start, watcher, al, conns, closers, metrics, mu,
                   kaFailPending, cbvars, xvars, yvars>>

\* client.SendRequest("keepalive@openssh.com", true, nil) is answered.
KaSendOk(k) ==
    /\ ka[k].pc = "send"
    /\ clients[ka[k].cl].alive
    /\ ~clients[ka[k].cl].stalled
    /\ ka' = [ka EXCEPT ![k].pc = "wait", ![k].cl = Nil]
    /\ UNCHANGED <<config, parentCancelled, cancelFn, cancelled, closed,
                   client, listener, wg, clients, lnState, incoming, nOpened,
                   start, watcher, al, conns, closers, metrics, mu,
                   kaFailPending, cbvars, xvars, yvars>>

\* SendRequest fails: the error is recorded, rt.listener is closed and set
\* to nil under the mutex, and the loop returns.
KaSendFail(k) ==
    /\ ka[k].pc = "send"
    /\ ~clients[ka[k].cl].alive
    /\ mu = "free"
    /\ metrics' = RecordError(metrics)
    /\ kaFailPending' = (kaFailPending \/ (~closed /\ ~cancelled))
    /\ IF ListenerCloseWaits(listener)
       THEN /\ lnState' = ListenerClose(lnState, listener)
            /\ mu' = "held"
            /\ ka' = [ka EXCEPT ![k].pc = "closing", ![k].cl = Nil]
            /\ UNCHANGED <<clients, listener, wg>>
       ELSE /\ lnState' = IF listener # Nil THEN ListenerClose(lnState, listener) ELSE lnState
            /\ clients' = IF listener # Nil THEN ForwardCancelled(clients, listener) ELSE clients
            /\ listener' = Nil
            /\ ka' = [ka EXCEPT ![k].pc = "done", ![k].cl = Nil]
            /\ wg' = wg - 1
            /\ UNCHANGED mu
    /\ UNCHANGED <<config, parentCancelled, cancelFn, cancelled, closed,
                   client, incoming, nOpened, start, watcher, al, conns,
                   closers, cbvars, xvars, yvars>>

\* The keepalive loop's listener.Close() returns because the transport has
\* ended: rt.listener = nil, unlock, return.
KaSendFailFinish(k) ==
    /\ ka[k].pc = "closing"
    /\ ~clients[listener].alive
    /\ listener' = Nil
    /\ mu' = "free"
    /\ ka' = [ka EXCEPT ![k].pc = "done"]
    /\ wg' = wg - 1
    /\ UNCHANGED <<config, parentCancelled, cancelFn, cancelled, closed,
                   client, clients, lnState, incoming, nOpened, start,
                   watcher, al, conns, closers, metrics, kaFailPending,
                   cbvars, xvars, yvars>>

\* -------------------------------------------------------- handleConnection
\* A handleConnection that treats a failed local dial as the tunnel's end.
HcDialFailCancels(i) ==
    /\ conns[i].pc = "dial"
    /\ conns' = [conns EXCEPT ![i] = [NoConn EXCEPT !.pc = "closed"]]
    /\ metrics' = ConnectionClosed(RecordError(metrics))
    /\ wg' = wg - 1
    /\ cancelled' = TRUE
    /\ UNCHANGED <<config, parentCancelled, cancelFn, closed, client,
                   listener, clients, lnState, incoming, nOpened, start,
                   watcher, al, ka, closers, mu, kaFailPending, cbvars,
                   xvars, yvars>>

\* A handleConnection whose failed local dial returns without the deferred
\* ConnectionClosed.
HcDialFailLeavesActive(i) ==
    /\ conns[i].pc = "dial"
    /\ conns' = [conns EXCEPT ![i] = [NoConn EXCEPT !.pc = "closed"]]
    /\ metrics' = RecordError(metrics)
    /\ wg' = wg - 1
    /\ UNCHANGED <<config, parentCancelled, cancelFn, cancelled, closed,
                   client, listener, clients, lnState, incoming, nOpened,
                   start, watcher, al, ka, closers, mu, kaFailPending,
                   cbvars, xvars, yvars>>

\* net.DialTimeout to the local service fails: RecordError, then the
\* deferred ConnectionClosed, remoteConn.Close() and wg.Done().
HcDialFail(i) ==
    /\ conns[i].pc = "dial"
    /\ conns' = [conns EXCEPT ![i] = [NoConn EXCEPT !.pc = "closed"]]
    /\ metrics' = ConnectionClosed(RecordError(metrics))
    /\ wg' = wg - 1
    /\ UNCHANGED <<config, parentCancelled, cancelFn, cancelled, closed,
                   client, listener, clients, lnState, incoming, nOpened,
                   start, watcher, al, ka, closers, mu, kaFailPending,
                   cbvars, xvars, yvars>>

\* The local dial succeeds and bridgeConns(rt.ctx, ...) starts.
HcDialOk(i) ==
    /\ conns[i].pc = "dial"
    /\ conns' = [conns EXCEPT ![i].pc = "bridge"]
    /\ UNCHANGED <<config, parentCancelled, cancelFn, cancelled, closed,
                   client, listener, wg, clients, lnState, incoming, nOpened,
                   start, watcher, al, ka, closers, metrics, mu,
                   kaFailPending, cbvars, xvars, yvars>>

\* bridgeConns returns because one side closed; the deferred calls run.
HcBridgeEnd(i) ==
    /\ conns[i].pc = "bridge"
    /\ conns' = [conns EXCEPT ![i] = [NoConn EXCEPT !.pc = "closed"]]
    /\ metrics' = ConnectionClosed(metrics)
    /\ wg' = wg - 1
    /\ UNCHANGED <<config, parentCancelled, cancelFn, cancelled, closed,
                   client, listener, clients, lnState, incoming, nOpened,
                   start, watcher, al, ka, closers, mu, kaFailPending,
                   cbvars, xvars, yvars>>

\* bridgeConns returns because rt.ctx is done; the deferred calls run.
HcBridgeCancel(i) ==
    /\ conns[i].pc = "bridge"
    /\ cancelled
    /\ conns' = [conns EXCEPT ![i] = [NoConn EXCEPT !.pc = "closed"]]
    /\ metrics' = ConnectionClosed(metrics)
    /\ wg' = wg - 1
    /\ UNCHANGED <<config, parentCancelled, cancelFn, cancelled, closed,
                   client, listener, clients, lnState, incoming, nOpened,
                   start, watcher, al, ka, closers, mu, kaFailPending,
                   cbvars, xvars, yvars>>

\* ------------------------------------------------------------------- Close
\* Under the mutex: if rt.closed return nil, else rt.closed = true.
CloseBegin(k) ==
    /\ closers[k].pc = "idle"
    /\ NoStartRunning
    /\ mu = "free"
    /\ closed' = TRUE
    /\ closers' = IF closed
                  THEN [closers EXCEPT ![k].pc = "done", ![k].ret = "nil"]
                  ELSE [closers EXCEPT ![k].pc = "cancel", ![k].first = TRUE,
                                       ![k].started = (start.pc = "ok")]
    /\ UNCHANGED <<config, parentCancelled, cancelFn, cancelled, client,
                   listener, wg, clients, lnState, incoming, nOpened, start,
                   watcher, al, ka, conns, metrics, mu, kaFailPending,
                   cbvars, xvars, yvars>>

\* if rt.cancel != nil { rt.cancel() }
CloseCancel(k) ==
    /\ closers[k].pc = "cancel"
    /\ cancelled' = (cancelled \/ cancelFn)
    /\ closers' = [closers EXCEPT ![k].pc = "listener"]
    /\ UNCHANGED <<config, parentCancelled, cancelFn, closed, client,
                   listener, wg, clients, lnState, incoming, nOpened, start,
                   watcher, al, ka, conns, metrics, mu, kaFailPending,
                   cbvars, xvars, yvars>>

\* Under the mutex: rt.listener.Close() and rt.listener = nil.
CloseListener(k) ==
    /\ closers[k].pc = "listener"
    /\ mu = "free"
    /\ IF ListenerCloseWaits(listener)
       THEN /\ lnState' = ListenerClose(lnState, listener)
            /\ mu' = "held"
            /\ closers' = [closers EXCEPT ![k].pc = "closing"]
            /\ UNCHANGED <<clients, listener>>
       ELSE /\ lnState' = IF listener # Nil THEN ListenerClose(lnState, listener) ELSE lnState
            /\ clients' = IF listener # Nil THEN ForwardCancelled(clients, listener) ELSE clients
            /\ listener' = Nil
            /\ closers' = [closers EXCEPT ![k].pc = "wait"]
            /\ UNCHANGED mu
    /\ UNCHANGED <<config, parentCancelled, cancelFn, cancelled, closed,
                   client, wg, incoming, nOpened, start, watcher, al, ka,
                   conns, metrics, kaFailPending, cbvars, xvars, yvars>>

\* Close's listener.Close() returns because the transport has ended:
\* rt.listener = nil and unlock.
CloseListenerFinish(k) ==
    /\ closers[k].pc = "closing"
    /\ ~clients[listener].alive
    /\ listener' = Nil
    /\ mu' = "free"
    /\ closers' = [closers EXCEPT ![k].pc = "wait"]
    /\ UNCHANGED <<config, parentCancelled, cancelFn, cancelled, closed,
                   client, wg, clients, lnState, incoming, nOpened, start,
                   watcher, al, ka, conns, metrics, kaFailPending, cbvars,
                   xvars, yvars>>

\* select: <-done, the goroutine that ran rt.wg.Wait() closed the channel.
CloseWaitDone(k) ==
    /\ closers[k].pc = "wait"
    /\ wg = 0
    /\ closers' = [closers EXCEPT ![k].pc = "client"]
    /\ UNCHANGED <<config, parentCancelled, cancelFn, cancelled, closed,
                   client, listener, wg, clients, lnState, incoming, nOpened,
                   start, watcher, al, ka, conns, metrics, mu, kaFailPending,
                   cbvars, xvars, yvars>>

\* A Close that gives up at the timeout and leaves the client open.
CloseWaitTimeoutGivesUp(k) ==
    /\ closers[k].pc = "wait"
    /\ wg > 0
    /\ closers' = [closers EXCEPT ![k].pc = "done", ![k].timedOut = TRUE,
                                  ![k].ret = "timeout waiting for handlers to finish"]
    /\ UNCHANGED <<config, parentCancelled, cancelFn, cancelled, closed,
                   client, listener, wg, clients, lnState, incoming, nOpened,
                   start, watcher, al, ka, conns, metrics, mu, kaFailPending,
                   cbvars, xvars, yvars>>

\* select: <-time.After(5 * time.Second) while handlers are still running.
CloseWaitTimeout(k) ==
    /\ closers[k].pc = "wait"
    /\ wg > 0
    /\ closers' = [closers EXCEPT ![k].pc = "client", ![k].timedOut = TRUE]
    /\ UNCHANGED <<config, parentCancelled, cancelFn, cancelled, closed,
                   client, listener, wg, clients, lnState, incoming, nOpened,
                   start, watcher, al, ka, conns, metrics, mu, kaFailPending,
                   cbvars, xvars, yvars>>

\* Under the mutex: rt.client.Close() and rt.client = nil; then the error
\* built from errs, or nil.
CloseClient(k) ==
    /\ closers[k].pc = "client"
    /\ mu = "free"
    /\ clients' = IF client # Nil THEN ClientClose(clients, client) ELSE clients
    /\ client' = Nil
    /\ closers' = [closers EXCEPT ![k].pc = "done",
                      ![k].ret = IF closers[k].timedOut
                                 THEN "timeout waiting for handlers to finish"
                                 ELSE "nil"]
    /\ UNCHANGED <<config, parentCancelled, cancelFn, cancelled, closed,
                   listener, wg, lnState, incoming, nOpened, start, watcher,
                   al, ka, conns, metrics, mu, kaFailPending, cbvars, xvars,
                   yvars>>

\* ---------------------------------------------------------- specifications
StartStep ==
    \/ StartBegin
    \/ StartDialFail
    \/ StartDialOk
    \/ \E permitted \in BOOLEAN : StartValidate(permitted)
    \/ \E granted \in BOOLEAN : StartListen(granted)

ReconnectStep ==
    \/ ReconnectTeardown
    \/ ReconnectCheck
    \/ ReconnectDialFail
    \/ ReconnectDialOk
    \/ \E granted \in BOOLEAN : ReconnectListen(granted)

AcceptLoopStep == AlTop \/ AlAcceptEOF \/ AlAcceptChan \/ AlExit

KeepaliveStep ==
    \E k \in ClientIds : KaCtxDone(k) \/ KaTick(k) \/ KaSendOk(k) \/ KaSendFail(k)

HandlerStep ==
    \E i \in ConnIds : HcDialFail(i) \/ HcDialOk(i) \/ HcBridgeEnd(i) \/ HcBridgeCancel(i)

\* core.ReverseTunnelMode.Run: Start, then Wait, then the deferred Close.
\* Close therefore starts after every task has returned.
RunClose ==
    \/ start.pc = "ok" /\ wg = 0 /\ CloseBegin(1)
    \/ CloseCancel(1)
    \/ CloseListener(1)
    \/ CloseWaitDone(1)
    \/ CloseClient(1)

\* The tunnel as the program runs it, against a peer that answers every
\* request until its transport ends.
Next ==
    \/ ParentCancel
    \/ \E c \in ClientIds : ClientDies(c)
    \/ \E c \in ClientIds : PeerOpensChannel(c, EchoPayload)
    \/ StartStep
    \/ WatcherFire
    \/ AcceptLoopStep
    \/ ReconnectStep
    \/ KeepaliveStep
    \/ HandlerStep
    \/ RunClose

Spec == TunnelInit /\ [][Next]_vars

\* Every goroutine that can take a step is scheduled; the network settles
\* every dial and request.  The peer and the caller owe nothing.
TunnelFairness ==
    /\ WF_vars(StartStep)
    /\ WF_vars(WatcherFire)
    /\ WF_vars(AcceptLoopStep)
    /\ WF_vars(ReconnectStep)
    /\ \A k \in ClientIds : SF_vars(KaCtxDone(k))
    /\ \A k \in ClientIds : WF_vars(KaTick(k) \/ KaSendOk(k) \/ KaSendFail(k))
    /\ \A i \in ConnIds : WF_vars(HcDialFail(i) \/ HcDialOk(i) \/ HcBridgeCancel(i))

FairSpec == Spec /\ TunnelFairness /\ WF_vars(RunClose)

CloseStep ==
    \E k \in CloserIds :
        \/ CloseBegin(k)
        \/ CloseCancel(k)
        \/ CloseListener(k)
        \/ CloseListenerFinish(k)
        \/ CloseWaitDone(k)
        \/ CloseWaitTimeout(k)
        \/ CloseClient(k)

\* The tunnel with callers that Close it at any moment after Start has
\* returned (or without Start), against a peer that may also go silent.
CloseNext ==
    \/ ParentCancel
    \/ \E c \in ClientIds : ClientDies(c)
    \/ \E c \in ClientIds : PeerStalls(c)
    \/ StartStep
    \/ WatcherFire
    \/ WatcherFinish
    \/ AlTop
    \/ AlAcceptEOF
    \/ AlExit
    \/ ReconnectStep
    \/ KeepaliveStep
    \/ \E k \in ClientIds : KaSendFailFinish(k)
    \/ CloseStep

CloseSpec == TunnelInit /\ [][CloseNext]_vars

\* Every goroutine and every Close call that can take a step takes it; the
\* 5-second timer of Close fires while handlers are still running.  The
\* peer, the network and the caller of Start owe nothing.
CloseFairness ==
    /\ WF_vars(WatcherFire \/ WatcherFinish)
    /\ WF_vars(AlTop \/ AlAcceptEOF \/ AlExit)
    /\ WF_vars(ReconnectStep)
    /\ \A k \in ClientIds : SF_vars(KaCtxDone(k))
    /\ \A k \in ClientIds :
          WF_vars(KaTick(k) \/ KaSendOk(k) \/ KaSendFail(k) \/ KaSendFailFinish(k))
    /\ \A k \in CloserIds :
          WF_vars(CloseCancel(k) \/ CloseListener(k) \/ CloseListenerFinish(k)
                    \/ CloseWaitDone(k) \/ CloseWaitTimeout(k) \/ CloseClient(k))

CloseFairSpec == CloseSpec /\ CloseFairness

\* A tunnel without keepalive, reconnect and gateway check, against a peer
\* that sends every kind of forwarded-tcpip payload.
ListenerConfig == [CheckGatewayPorts |-> FALSE, KeepAlive |-> FALSE, AutoReconnect |-> FALSE]

ListenerInit ==
    config = ListenerConfig /\ NewReverseTunnel /\ CircuitBreakerIdle /\ BackoffIdle
    /\ ScanIdle /\ SSHDialerIdle /\ ForwardersIdle

ListenerNext ==
    \/ ParentCancel
    \/ \E c \in ClientIds : ClientDies(c)
    \/ \E c \in ClientIds, p \in Payloads : PeerOpensChannel(c, p)
    \/ StartBegin
    \/ StartDialFail
    \/ StartDialOk
    \/ \E granted \in BOOLEAN : StartListen(granted)
    \/ WatcherFire
    \/ AlTop
    \/ AlAcceptEOF
    \/ AlAcceptChan
    \/ AlExit
    \/ HandlerStep

ListenerSpec == ListenerInit /\ [][ListenerNext]_vars

\* One caller using a circuit breaker: each Execute returns before the next.
CBSeqInit ==
    CircuitBreakerInit /\ config = ListenerConfig /\ NewReverseTunnel /\ BackoffIdle
    /\ ScanIdle /\ SSHDialerIdle /\ ForwardersIdle

CBSeqNext ==
    \/ Tick
    \/ CbBeforeRequest(1)
    \/ CbInvoke(1)
    \/ \E ok \in BOOLEAN : CbAfterRequest(1, ok)

CBSeqSpec == CBSeqInit /\ [][CBSeqNext]_vars

\* Concurrent callers of Execute, and Reset.
CBNext ==
    \/ Tick
    \/ \E p \in CallerIds : CbBeforeRequest(p)
    \/ \E p \in CallerIds : CbInvoke(p)
    \/ \E p \in CallerIds, ok \in BOOLEAN : CbAfterRequest(p, ok)
    \/ CbReset

CBSpec == CBSeqInit /\ [][CBNext]_vars

\* One call of Backoff.Do with a callable that returns what it likes and a
\* token that may be cancelled at any time.
BackoffSpecInit ==
    BackoffInit /\ config = ListenerConfig /\ NewReverseTunnel /\ CircuitBreakerIdle
    /\ ScanIdle /\ SSHDialerIdle /\ ForwardersIdle

BackoffNext ==
    \/ BoDo
    \/ \E err \in FnResults : BoCall(err)
    \/ BoTimerFires
    \/ BoWakeTimer
    \/ BoWakeCancel
    \/ \E cause \in {"context canceled", "context deadline exceeded"} : BoCancel(cause)

BackoffSpec == BackoffSpecInit /\ [][BackoffNext]_vars

\* One call of ScanPorts: its loop, its probes, a dial function that returns
\* what it likes, and a token that may be cancelled at any time.
ScanSpecInit ==
    ScanInit /\ config = ListenerConfig /\ NewReverseTunnel /\ CircuitBreakerIdle
    /\ BackoffIdle /\ SSHDialerIdle /\ ForwardersIdle

ScanNext ==
    \/ ScSpawn
    \/ \E i \in DOMAIN scan.pc : ScAcquire(i)
    \/ \E i \in DOMAIN scan.pc, ok \in BOOLEAN : ScDial(i, ok)
    \/ ScCancel
    \/ ScReturn

ScanSpec == ScanSpecInit /\ [][ScanNext]_vars

\* The loop and every probe are scheduled, every dial returns, and the
\* senders blocked on the semaphore are served in turn.
ScanFairness ==
    /\ WF_vars(ScSpawn)
    /\ WF_vars(ScReturn)
    /\ \A i \in 1..MaxPorts : SF_vars(i \in DOMAIN scan.pc /\ ScAcquire(i))
    /\ \A i \in 1..MaxPorts : WF_vars(i \in DOMAIN scan.pc /\ \E ok \in BOOLEAN : ScDial(i, ok))

ScanFairSpec == ScanSpec /\ ScanFairness

\* Concurrent callers of one SSHDialer (Dial and Close) and of its tunnel
\* (Dial and Close), the monitors, and transports that may end.
DialerSpecInit ==
    SSHDialerIdle /\ config = ListenerConfig /\ NewReverseTunnel /\ CircuitBreakerIdle
    /\ BackoffIdle /\ ScanIdle /\ ForwardersIdle

DialerNext ==
    \/ \E p \in DialerIds : SdConnect(p)
    \/ \E p \in DialerIds, ok \in BOOLEAN : SdHandshake(p, ok)
    \/ \E p \in DialerIds : StDial(p)
    \/ \E p \in DialerIds, ok \in BOOLEAN : StDialOpen(p, ok)
    \/ \E p \in DialerIds : SdClose(p)
    \/ \E p \in DialerIds : StClose(p)
    \/ \E c \in SshClientIds : SshClientEnds(c)
    \/ \E m \in SshClientIds : StMonitorStart(m)
    \/ \E m \in SshClientIds : StMonitorEnd(m)

DialerSpec == DialerSpecInit /\ [][DialerNext]_vars

\* Every monitor task is scheduled.
DialerFairSpec ==
    DialerSpec /\ \A m \in SshClientIds : WF_vars(StMonitorStart(m) \/ StMonitorEnd(m))

\* Every component modelled before the forwarders is idle.
RestIdle ==
    config = ListenerConfig /\ NewReverseTunnel /\ CircuitBreakerIdle /\ BackoffIdle
    /\ ScanIdle /\ SSHDialerIdle

\* One call of bridgeConns between two connections whose peers write and
\* end as they like, under a token that may be cancelled at any time.
BridgeSpecInit ==
    br = NewBridge /\ CopyIdle /\ ConfigIdle /\ ListenIdle /\ PortSpecIdle /\ RestIdle

BridgeNext ==
    \/ \E x \in Sides, byte \in Bytes : BrPeerSend(x, byte)
    \/ \E x \in Sides : BrPeerEOF(x)
    \/ BrCancel
    \/ \E x \in Sides, k \in 1..MaxBytes : BrRead(x, k)
    \/ \E x \in Sides : BrWrite(x)
    \/ BrCloseA
    \/ BrCloseB
    \/ BrReturn

BridgeSpec == BridgeSpecInit /\ [][BridgeNext]_vars

\* bridgeConns and its two goroutines are scheduled.  The peers and the
\* caller owe nothing.
BridgeFairSpec ==
    /\ BridgeSpec
    /\ \A x \in Sides : WF_vars((\E k \in 1..MaxBytes : BrRead(x, k)) \/ BrWrite(x))
    /\ WF_vars(BrCloseA \/ BrCloseB \/ BrReturn)

\* One call of BidirectionalCopy on a connection (TCP or not) between a
\* local reader that delivers, ends or stays silent and a remote that writes
\* and ends as it likes, under a token that may be cancelled at any time.
CopySpecInit ==
    bc \in {NewBidirectionalCopy(tcp) : tcp \in BOOLEAN} /\ BridgeIdle /\ ConfigIdle
    /\ ListenIdle /\ PortSpecIdle /\ RestIdle

CopyNext ==
    \/ BcLocalInput
    \/ BcLocalEOF
    \/ \E byte \in Bytes : BcRemoteSend(byte)
    \/ BcRemoteEOF
    \/ BcCancel
    \/ BcUpRead
    \/ BcUpWrite
    \/ \E k \in 1..MaxBytes : BcDownRead(k)
    \/ BcDownWrite
    \/ BcClose
    \/ BcReturn

CopySpec == CopySpecInit /\ [][CopyNext]_vars

\* BidirectionalCopy and its two goroutines are scheduled.  The local
\* reader, the remote and the caller owe nothing.
CopyFairSpec ==
    /\ CopySpec
    /\ WF_vars(BcUpRead \/ BcUpWrite)
    /\ WF_vars((\E k \in 1..MaxBytes : BcDownRead(k)) \/ BcDownWrite)
    /\ WF_vars(BcClose \/ BcReturn)

\* Every configuration of Configs goes through Validate and, when accepted,
\* through Build.
ConfigSpecInit ==
    cf \in {NewConfigRun(c) : c \in Configs} /\ BridgeIdle /\ CopyIdle /\ ListenIdle
    /\ PortSpecIdle /\ RestIdle

ConfigNext == CfValidate \/ CfBuild

ConfigSpec == ConfigSpecInit /\ [][ConfigNext]_vars

\* One call of ListenMode.Run on TCP, with or without KeepOpen, clients
\* that connect, behaviours that return nil or an error when they like, and
\* a token that may be cancelled at any time.
ListenModeInit ==
    lm \in {NewListenMode(k) : k \in BOOLEAN} /\ BridgeIdle /\ CopyIdle /\ ConfigIdle
    /\ PortSpecIdle /\ RestIdle

ListenModeNext ==
    \/ LmDial
    \/ LmCancel
    \/ LmWatcher
    \/ LmAccept
    \/ \E i \in 1..MaxDials, ok \in BOOLEAN : LmServeEnd(i, ok)

ListenModeSpec == ListenModeInit /\ [][ListenModeNext]_vars

\* The accept loop and the goroutine that waits for the token are scheduled.
ListenModeFairSpec == ListenModeSpec /\ WF_vars(LmAccept) /\ WF_vars(LmWatcher)

\* The port arguments of a command line are parsed one by one and the
\* ranges expanded.
PortSpecInit ==
    /\ BridgeIdle /\ CopyIdle /\ ConfigIdle /\ ListenIdle /\ RestIdle
    /\ ps \in {NewPortArgs(args) : args \in UNION {[1..n -> PortSpecs] : n \in 1..MaxArgs}}

PortSpecNext == PsParse \/ PsAllPorts

PortSpecSpec == PortSpecInit /\ [][PortSpecNext]_vars

\* ------------------------------------------------------------------ claims
\* C1: once the token is cancelled (or Close has cancelled it), the accept
\* loop, the keepalive loop and every bridge return, so the WaitGroup drains
\* and Wait() returns; this includes a cancellation that arrives while
\* reconnect() is running.
C1_CancelEndsAllTasks == (start.pc = "ok" /\ cancelled) ~> (wg = 0)

\* C2: with AutoReconnect and a keepalive interval, a keepalive failure on a
\* tunnel that is neither closed nor cancelled is followed by reconnect():
\* the accept loop does not leave its loop for want of a listener while that
\* failure is still waiting for its reconnect.
C2_KeepaliveFailureReconnects ==
    ~ /\ config.AutoReconnect
      /\ config.KeepAlive
      /\ kaFailPending
      /\ al.pc = "exit"
      /\ al.exit = "no listener"
      /\ ~cancelled
      /\ ~closed

\* C3: Close() may be called any number of times and by concurrent callers:
\* the teardown is run by one call only, every other call returns nil, and
\* every call that has begun returns without waiting for anything but the
\* program's own steps and the 5-second timer.
C3_CloseReturnsOnce ==
    /\ [](/\ Cardinality({k \in CloserIds : closers[k].first}) <= 1
          /\ \A k \in CloserIds :
                (closers[k].pc = "done" /\ ~closers[k].first) => closers[k].ret = "nil")
    /\ \A k \in CloserIds : (closers[k].pc # "idle") ~> (closers[k].pc = "done")

\* C4: nothing claims the forwarded-tcpip channel type on a client before
\* listenRemoteForward registers the custom handler, so Start never fails
\* with "forwarded-tcpip handler already registered", CheckGatewayPorts set
\* and the gateway permitting the test bind included.
C4_CustomHandlerRegisteredFirst ==
    start.err # "forwarded-tcpip handler already registered"

\* C5: every forwarded-tcpip channel that Accept takes from a live client
\* becomes a connection, whatever bind address and port its payload names;
\* the payload only gives the connection its remote address (OriginAddr,
\* OriginPort), and a payload that cannot be decoded gives the empty address.
C5_EveryChannelAccepted ==
    [][\A i \in ConnIds :
          (conns[i].pc = "queued" /\ conns'[i].pc # "queued" /\ clients[al.ln].alive)
              => /\ conns'[i].pc = "dial"
                 /\ conns'[i].raddr =
                      IF conns[i].payload.ok
                      THEN [IP |-> ParseIP(conns[i].payload.OriginAddr),
                            Port |-> conns[i].payload.OriginPort]
                      ELSE [IP |-> <<"nil">>, Port |-> 0]]_vars

\* A channel whose payload names port 80, not the requested 9000, is being
\* bridged with the origin of that payload as its remote address.
C5_Witness ==
    \E i \in ConnIds : conns[i].pc = "bridge" /\ conns[i].raddr.Port = 5556

\* C6: once the Close() that tore down a started tunnel has returned, no SSH
\* client the tunnel ever created is still open.
C6_NoClientOutlivesClose ==
    (\E k \in CloserIds : closers[k].pc = "done" /\ closers[k].first /\ closers[k].started)
        => \A c \in ClientIds : clients[c].st # "open"

\* C7: a failed local dial ends its own bridge only: the step closes that
\* connection, counts one error and one closed connection and releases the
\* WaitGroup, and leaves the SSH client, the listener, the token, the accept
\* loop (no reconnect), the keepalive loops and every other bridge as they were.
C7_DialFailureIsLocal ==
    [][\A i \in ConnIds :
          (conns[i].pc = "dial" /\ conns'[i].pc = "closed")
              => /\ UNCHANGED <<client, listener, cancelled, closed, clients, lnState, al, ka>>
                 /\ metrics' = [metrics EXCEPT !.errorsTotal = @ + 1,
                                               !.connectionsActive = @ - 1]
                 /\ wg' = wg - 1
                 /\ \A j \in ConnIds \ {i} : conns'[j] = conns[j]]_vars

\* One bridge has failed at its local dial (the only error counted), another
\* is still bridging and the accept loop is still at work on a live listener.
C7_Witness ==
    /\ start.pc = "ok"
    /\ ~cancelled
    /\ metrics.errorsTotal = 1
    /\ metrics.tunnelReconnects = 0
    /\ al.pc = "accept"
    /\ lnState[al.ln] = "open"
    /\ clients[al.ln].alive
    /\ \E i, j \in ConnIds : conns[i].pc = "closed" /\ conns[j].pc = "bridge"

\* C8: the first Close() sets closed, then cancels the token, then closes
\* and nils the listener, then waits for the WaitGroup or for the timeout,
\* and only then closes and nils the client; no step of Close before that
\* closes a client; after a timeout the client is still closed and the
\* error returned reports the timeout.
C8_CloseOrder ==
    [][\A k \in CloserIds :
          LET a == closers[k].pc
              b == closers'[k].pc
              NoClientClosed == \A c \in ClientIds : clients'[c].st = clients[c].st
          IN  /\ (a = "idle" /\ b # a /\ ~closed) => (b = "cancel" /\ closed' /\ NoClientClosed)
              /\ (a = "cancel" /\ b # a)
                    => (b = "listener" /\ (cancelFn => cancelled') /\ NoClientClosed)
              /\ (a = "listener" /\ b # a)
                    => /\ b \in {"closing", "wait"}
                       /\ listener # Nil => lnState'[listener] = "closed"
                       /\ b = "wait" => listener' = Nil
                       /\ NoClientClosed
              /\ (a = "closing" /\ b # a) => (b = "wait" /\ listener' = Nil /\ NoClientClosed)
              /\ (a = "wait" /\ b # a)
                    => (b = "client" /\ (wg = 0 \/ closers'[k].timedOut) /\ NoClientClosed)
              /\ (a = "client" /\ b # a)
                    => /\ b = "done"
                       /\ client' = Nil
                       /\ client # Nil => clients'[client].st = "closed"
                       /\ closers[k].timedOut
                             => closers'[k].ret = "timeout waiting for handlers to finish"]_vars

\* The Close() of a started tunnel has timed out, closed the client it found
\* and returned the timeout error.
C8_Witness ==
    \E k \in CloserIds :
        /\ closers[k].pc = "done"
        /\ closers[k].started
        /\ closers[k].timedOut
        /\ closers[k].ret = "timeout waiting for handlers to finish"
        /\ client = Nil
        /\ wg > 0
        /\ \E c \in ClientIds : clients[c].st = "closed" /\ clients[c].handler = "custom"

\* C9: sequential Execute calls.  In Closed a failure opens the breaker
\* exactly when it is the MaxFailures-th in a row, and a success zeroes the
\* failure counter; in Open the first call made after ResetTimeout has
\* elapsed since the last failure moves it to HalfOpen and is admitted; in
\* HalfOpen a success closes the breaker exactly when it is the
\* HalfOpenMax-th in a row, and any failure opens it again.
C9_StateMachine ==
    [][LET returned == callers[1].pc = "running" /\ callers'[1].pc = "idle"
           ok == callers'[1].ret = "nil"
           called == nCalls' = nCalls + 1
       IN  /\ (returned /\ cb.state = "closed" /\ ~ok)
                 => (cb'.state = "open" <=> obs.fails + 1 >= cb.maxFailures)
                    /\ cb'.state \in {"open", "closed"}
           /\ (returned /\ cb.state = "closed" /\ ok)
                 => (cb'.state = "closed" /\ cb'.failures = 0)
           /\ (returned /\ cb.state = "half-open" /\ ok)
                 => (cb'.state = "closed" <=> obs.succs + 1 >= cb.halfOpenMax)
                    /\ cb'.state \in {"closed", "half-open"}
           /\ (returned /\ cb.state = "half-open" /\ ~ok) => cb'.state = "open"
           /\ (called /\ cb.state = "open" /\ now - cb.lastFailure > cb.resetTimeout)
                 => (cb'.state = "half-open" /\ callers'[1].pc = "admitted")]_vars

\* With HalfOpenMax = 2 the breaker has opened, become HalfOpen after the
\* timeout and seen one success: it is still HalfOpen.
C9_Witness ==
    /\ cb.state = "half-open"
    /\ cb.halfOpenMax = 2
    /\ obs.succs = 1
    /\ callers[1].pc = "idle"

\* C10: while the breaker is Open and ResetTimeout has not elapsed since the
\* last failure, no callable is invoked and every Execute that begins is
\* refused, in every interleaving of concurrent callers.
C10_OpenInvokesNothing ==
    [][LET open == cb.state = "open" /\ now - cb.lastFailure <= cb.resetTimeout
       IN  \A p \in CallerIds :
              /\ (callers[p].pc = "admitted" /\ callers'[p].pc = "running") => ~open
              /\ (callers[p].pc = "idle" /\ callers'[p].pc = "admitted") => ~open]_vars

\* C11: an Execute call rejected because the circuit is Open returns an
\* error that matches the ErrCircuitOpen sentinel and carries the time that
\* remains until the reset timeout, and leaves the state, both counters and
\* the time of the last failure as they were.
C11_RejectionIsCircuitOpen ==
    [][(nCalls' = nCalls + 1 /\ callers'[1].pc = "idle")
          => /\ callers'[1].ret = "circuit open"
             /\ cb' = cb
             /\ "ErrCircuitOpen" \in callers'[1].chain
             /\ callers'[1].remaining = cb.resetTimeout - (now - cb.lastFailure)]_vars

\* C12: while the breaker is HalfOpen, the callables that were admitted as
\* probes and are running at the same time never number more than
\* HalfOpenMax, however many callers use Execute concurrently.
C12_HalfOpenProbesBounded ==
    cb.state = "half-open"
        => Cardinality({p \in CallerIds : callers[p].pc = "running" /\ callers[p].probe})
              <= cb.halfOpenMax

\* C13: with MaxAttempts = N > 0, a callable that has failed non-permanently
\* every time and a token that was never cancelled, Do never makes more than
\* N attempts, and when it has returned it has invoked the callable exactly
\* N times with the attempt numbers 1..N in order, has slept N-1 times, and
\* returns "max retries exceeded" wrapping the last error.
C13_AttemptBudget ==
    LET N == bo.cfg.MaxAttempts
    IN  (N > 0 /\ bo.failedOnly /\ bo.ctx = "")
            => /\ Len(bo.calls) <= N
               /\ bo.pc = "done"
                     => /\ bo.calls = [i \in 1..N |-> i]
                        /\ bo.sleeps = N - 1
                        /\ bo.ret = Errorf("max retries exceeded", bo.err)

\* A Do with MaxAttempts = 3 has returned after three failed attempts and
\* two sleeps, its token never cancelled.
C13_Witness ==
    /\ bo.pc = "done"
    /\ bo.cfg.MaxAttempts = 3
    /\ bo.failedOnly
    /\ bo.ctx = ""
    /\ bo.calls = <<1, 2, 3>>
    /\ bo.sleeps = 2
    /\ bo.ret = <<"max retries exceeded", "fail">>

\* C14: when the callable returns an error for which IsPermanent is true, Do
\* returns at once, without another attempt and without a sleep, and what it
\* returns is the cause that was given to Permanent, with nothing around it.
C14_PermanentReturnsCause ==
    IsPermanent(bo.err)
        => /\ bo.pc = "done"
           /\ bo.sleeps = Len(bo.calls) - 1
           /\ LET i == CHOOSE j \in 1..Len(bo.err) :
                          /\ bo.err[j] = "PermanentError"
                          /\ \A k \in 1..(j - 1) : bo.err[k] # "PermanentError"
              IN  bo.ret = SubSeq(bo.err, i + 1, Len(bo.err))

\* C15: when the token is cancelled while Do sleeps and the timer has not
\* fired, the sleep ends with Do returning "retry cancelled" wrapping the
\* token's error; the timer has still not fired and the callable has not
\* been invoked again.
C15_CancelEndsSleep ==
    [][(bo.pc = "sleep" /\ bo.ctx # "" /\ ~bo.fired /\ bo'.pc # "sleep")
          => /\ bo'.pc = "done"
             /\ bo'.ret = <<"retry cancelled", bo.ctx>>
             /\ ~bo'.fired
             /\ bo'.calls = bo.calls]_vars

\* A Do whose token's deadline passed during the first sleep has returned
\* "retry cancelled" around that cause after one attempt.
C15_Witness ==
    /\ bo.pc = "done"
    /\ bo.ret = <<"retry cancelled", "context deadline exceeded">>
    /\ bo.calls = <<1>>
    /\ bo.sleeps = 1
    /\ ~bo.fired

\* C16: when ScanPorts has returned, every probe has finished (also when the
\* token was cancelled), and the result has one entry per input port, in
\* input order: entry i carries ports[i], is open exactly when the i-th dial
\* succeeded and carries an error exactly when it failed, duplicates in the
\* input included.
C16_ScanResultsInOrder ==
    scan.returned
        => /\ \A i \in DOMAIN scan.pc : scan.pc[i] = "done"
           /\ Len(scan.ret) = Len(scan.ports)
           /\ \A i \in 1..Len(scan.ports) :
                 /\ scan.ret[i].Port = scan.ports[i]
                 /\ scan.ret[i].Open <=> scan.dialed[i] = "ok"
                 /\ scan.ret[i].Err # "" <=> scan.dialed[i] = "failed"

\* A scan of <<80, 22, 80>> whose token was cancelled has returned: the two
\* probes of port 80 ended differently.
C16_Witness ==
    /\ scan.returned
    /\ scan.ctxDone
    /\ scan.ports = <<80, 22, 80>>
    /\ scan.ret[1].Open
    /\ ~scan.ret[3].Open
    /\ scan.ret[3].Err = "dial error"

\* C17: the dial calls of one ScanPorts in flight never number more than the
\* semaphore's capacity, and every probe that waits for a slot gets one and
\* runs, given that every dial returns.
C17_SemaphoreBoundsDials ==
    /\ [](Cardinality({i \in DOMAIN scan.pc : scan.pc[i] = "dial"}) <= MaxConcurrentScans)
    /\ \A i \in 1..MaxPorts :
          (i \in DOMAIN scan.pc /\ scan.pc[i] = "sem")
              ~> (i \in DOMAIN scan.pc /\ scan.pc[i] \in {"dial", "done"})

\* The semaphore is full and a third probe waits for a slot.
C17_Witness ==
    /\ Len(scan.ports) = 3
    /\ scan.sem = MaxConcurrentScans
    /\ Cardinality({i \in DOMAIN scan.pc : scan.pc[i] = "dial"}) = MaxConcurrentScans
    /\ \E i \in DOMAIN scan.pc : scan.pc[i] = "sem"

\* C18: however many callers use Dial at once, at most one SSH handshake is
\* in progress; while the dialer is connected none is in progress (none is
\* started between a successful handshake and Close), and at most one
\* client is open, so that all callers use the same one.
C18_OneHandshake ==
    /\ Cardinality({p \in DialerIds : dialers[p].pc = "handshake"}) <= 1
    /\ sshd.connected => \A p \in DialerIds : dialers[p].pc # "handshake"
    /\ Cardinality({c \in SshClientIds : sshd.clients[c] = "open"}) <= 1
    /\ \A p \in DialerIds :
          (dialers[p].pc = "open" /\ sshd.clients[dialers[p].cl] = "open")
              => dialers[p].cl = sshd.client

\* Two callers of Dial are opening their channels on the same client, the
\* second one made after a Close.
C18_Witness ==
    /\ sshd.connected
    /\ sshd.client = 2
    /\ sshd.clients[1] = "closed"
    /\ \A p \in DialerIds : dialers[p].pc = "open" /\ dialers[p].cl = 2

\* C19: SSHTunnel.Dial goes on to the client only when the tunnel is alive
\* and has a client that was not released; otherwise (before any Connect,
\* after Close, after the monitor saw the client end) it returns
\* ErrNotConnected; no connection is returned on a client that is not open.
\* Close leaves the tunnel not alive and without a client, closes the client
\* it had, and changes nothing else when there is none.
C19_DialNeedsAlive ==
    [][\A p \in DialerIds :
          LET closeStep ==
                  /\ dialers[p].pc = "idle"
                  /\ dialers'[p].pc = "idle"
                  /\ dialers'[p].ret = "closed"
                  /\ \A q \in DialerIds \ {p} : dialers'[q] = dialers[q]
                  /\ sshd'.monitors = sshd.monitors
                  /\ \A c \in SshClientIds :
                        sshd'.clients[c] \in {sshd.clients[c], "closed"}
          IN  /\ (dialers[p].pc \in {"idle", "dial"} /\ dialers'[p].pc = "open")
                    => /\ sshd.alive
                       /\ dialers'[p].cl = sshd.client
                       /\ sshd.clients[sshd.client] # "closed"
              /\ (dialers[p].pc = "dial" /\ dialers'[p].pc = "idle")
                    => /\ ~sshd.alive
                       /\ dialers'[p].ret = "not connected"
                       /\ "ErrNotConnected" \in dialers'[p].chain
              /\ (dialers[p].pc = "open" /\ dialers'[p].ret = "conn")
                    => sshd.clients[dialers[p].cl] = "open"
              /\ closeStep
                    => /\ ~sshd'.alive
                       /\ sshd'.client = Nil
                       /\ sshd.client # Nil => sshd'.clients[sshd.client] = "closed"
                       /\ sshd.client = Nil => sshd'.clients = sshd.clients]_vars

\* A Dial made after the monitor saw the client end has returned
\* ErrNotConnected: the tunnel still holds that client, and the dialer still
\* counts as connected.
C19_Witness ==
    /\ sshd.connected
    /\ ~sshd.alive
    /\ sshd.client = 1
    /\ sshd.clients[1] = "ended"
    /\ sshd.monitors[1].pc = "done"
    /\ \E p \in DialerIds : dialers[p].ret = "not connected" /\ dialers[p].pc = "idle"

\* C20: a Connect that succeeds leaves the tunnel alive with the new client;
\* when the tunnel's client ends, the monitor sets alive to false; and alive
\* becomes true again only by another successful Connect.
C20_MonitorFlipsAlive ==
    /\ [][/\ \A p \in DialerIds :
                (dialers[p].pc = "handshake" /\ dialers'[p].pc = "dial")
                    => /\ sshd'.alive
                       /\ sshd'.client # Nil
                       /\ sshd'.clients[sshd'.client] = "open"
          /\ (~sshd.alive /\ sshd'.alive)
                => \E p \in DialerIds : dialers[p].pc = "handshake" /\ dialers'[p].pc = "dial"]_vars
    /\ \A c \in SshClientIds :
          (sshd.client = c /\ sshd.clients[c] = "ended") ~> ~sshd.alive

\* The client's transport has ended and its monitor has returned: the
\* tunnel is not alive.
C20_Witness ==
    /\ sshd.client = 1
    /\ sshd.clients[1] = "ended"
    /\ sshd.monitors[1] = [pc |-> "done", cl |-> 1]
    /\ ~sshd.alive

\* ------------------------------------------------------------ claims C21-C30
\* C21: once a copy direction of bridgeConns has ended or the token is
\* cancelled, both connections get closed and the call returns, whatever the
\* peers do; and when it has returned both directions have ended and both
\* connections are closed.
C21_BridgeClosesBoth ==
    /\ [](br.main = "returned"
            => \A x \in Sides : br.cp[x].pc = "done" /\ br.closed[x])
    /\ [](((\E x \in Sides : br.cp[x].pc = "done") \/ br.ctxParent) => br.done)
    /\ (br.main # "none" /\ br.done) ~> (\A x \in Sides : br.closed[x])
    /\ (br.main # "none" /\ br.done) ~> (br.main = "returned")

\* The token was cancelled while both peers were silent, and bridgeConns
\* has returned.
C21_Witness ==
    /\ br.main = "returned"
    /\ br.ctxParent
    /\ \A x \in Sides : br.sent[x] = <<>> /\ ~br.eof[x] /\ br.cp[x].end = "error"

\* C22: a clean EOF of the local reader neither cancels BidirectionalCopy
\* nor closes the connection, and half-closes a TCP connection's write
\* side; from then on, unless the caller cancels, the connection stays open
\* until the remote has ended, every byte the remote sends is written to the
\* local writer, and the copy returns with all of them written.
C22_ReaderEOFKeepsDraining ==
    /\ [][(bc.up.pc = "read" /\ bc'.up.err = "nil")
            => /\ bc'.done = bc.done
               /\ bc'.closed = bc.closed
               /\ (bc.tcp /\ ~bc.closed) => bc'.wrClosed]_vars
    /\ []((bc.up.err = "nil" /\ ~bc.ctxParent /\ bc.closed)
            => (bc.netEOF /\ bc.netRd = Len(bc.netSent)))
    /\ []((bc.main = "returned" /\ bc.up.err = "nil" /\ ~bc.ctxParent)
            => bc.out = bc.netSent)
    /\ \A k \in 1..MaxBytes :
          (bc.up.err = "nil" /\ Len(bc.netSent) >= k) ~> (Len(bc.out) >= k \/ bc.ctxParent)

\* The local reader has ended, the TCP connection is half-closed and still
\* open, and a chunk from the remote is on its way to the local writer.
C22_Witness ==
    /\ bc.tcp
    /\ bc.up.err = "nil"
    /\ bc.wrClosed
    /\ ~bc.closed
    /\ ~bc.done
    /\ bc.out = <<>>
    /\ bc.down.pc = "write"

\* C23: once the token is cancelled or the network side has reached EOF,
\* BidirectionalCopy closes the connection and returns, also when the local
\* reader never returns from Read.
C23_ReturnsWithoutLocalInput ==
    /\ (bc.ctxParent \/ bc.down.err = "nil") ~> bc.closed
    /\ (bc.ctxParent \/ bc.down.err = "nil") ~> (bc.main = "returned")

\* s is a prefix of t.
IsPrefix(s, t) == Len(s) <= Len(t) /\ SubSeq(t, 1, Len(s)) = s

\* C24: in each direction of bridgeConns the bytes written to the
\* destination are a prefix of the bytes the source sent, the direction's
\* count is the number of bytes written to the destination (and is what
\* bridgeConns returns for it), and a direction that ran to its source's EOF
\* has written everything the source sent.
C24_ByteConservation ==
    \A x \in Sides :
        /\ IsPrefix(br.recv[Other(x)], br.sent[x])
        /\ br.cp[x].n = Len(br.recv[Other(x)])
        /\ br.cp[x].pc = "done" => br.ret[x] = Len(br.recv[Other(x)])
        /\ br.cp[x].end = "eof" => br.recv[Other(x)] = br.sent[x]

\* bridgeConns has returned: a to b ran to EOF and delivered both bytes, b to
\* a was cut short after one of two bytes.
C24_Witness ==
    /\ br.main = "returned"
    /\ br.cp["a"].end = "eof" /\ br.sent["a"] = <<1, 2>> /\ br.recv["b"] = <<1, 2>>
    /\ br.ret["a"] = 2
    /\ br.cp["b"].end = "error" /\ br.sent["b"] = <<2, 1>> /\ br.recv["a"] = <<2>>
    /\ br.rd["b"] = 2 /\ br.ret["b"] = 1

\* C25: rt.mu is held only for short in-memory sections: no task holds it
\* across a call that waits for the peer.
C25_NoIOUnderMutex == mu = "free"

\* The mode the fixed priority names for a configuration.
ModeByPriority(c) ==
    IF c.ReverseTunnelEnabled THEN "ReverseTunnelMode"
    ELSE IF c.Listen THEN "ListenMode"
    ELSE IF c.ZeroIO THEN "ScanMode"
    ELSE "ConnectMode"

\* The parts of a built mode are as claimed: the behaviour is Exec exactly
\* when Execute or Command is set, the dialer is the SSH dialer with a
\* forward tunnel, else UDP with UDP, else TCP.
PartsAsClaimed(c, m) ==
    /\ m.Capability # "none"
         => (m.Capability = "Exec" <=> (c.Execute # "" \/ c.Command # ""))
            /\ m.Capability \in {"Exec", "Relay"}
    /\ m.Dialer # "none"
         => m.Dialer = (IF c.TunnelEnabled THEN "SSHDialer"
                        ELSE IF c.UDP THEN "UDPDialer" ELSE "TCPDialer")
    /\ m.Mode \in {"ConnectMode", "ListenMode"} => m.Capability # "none"
    /\ m.Mode \in {"ConnectMode", "ScanMode"} => m.Dialer # "none"

\* C26 as stated: for every validated configuration Build constructs the
\* mode the priority names, with the behaviour and dialer as claimed.
C26_BuildOneMode ==
    cf.pc = "built"
        => /\ cf.built.err = ""
           /\ cf.built.Mode = ModeByPriority(cf.cfg)
           /\ PartsAsClaimed(cf.cfg, cf.built)

\* C26 amended: Build constructs no mode and returns an error exactly when
\* the priority names Connect or Scan, DNS is disabled and the host is not
\* an IP address; for every other validated configuration it constructs the
\* mode the priority names, with the behaviour and dialer as claimed.
C26_BuildOneModeOrRefuses ==
    cf.pc = "built"
        => LET refuses == /\ ModeByPriority(cf.cfg) \in {"ConnectMode", "ScanMode"}
                          /\ cf.cfg.NoDNS
                          /\ cf.cfg.Host \notin {"10.0.0.7", "0.0.0.0"}
           IN  IF refuses
               THEN cf.built.Mode = "nil" /\ cf.built.err # ""
               ELSE /\ cf.built.err = ""
                    /\ cf.built.Mode = ModeByPriority(cf.cfg)
                    /\ PartsAsClaimed(cf.cfg, cf.built)

\* A validated configuration with DNS disabled, an IP address for a host, a
\* forward tunnel and a program to run was built as a ConnectMode with the
\* SSH dialer and the Exec behaviour.
C26_Witness ==
    /\ cf.pc = "built"
    /\ cf.cfg.NoDNS
    /\ cf.cfg.Host = "10.0.0.7"
    /\ cf.built.Mode = "ConnectMode"
    /\ cf.built.Dialer = "SSHDialer"
    /\ cf.built.Capability = "Exec"

\* The configuration breaks one of the invariants the spec lists.
ViolatesInvariant(c) ==
    \/ c.Listen /\ (c.LocalPort = 0 \/ c.ZeroIO \/ c.TunnelEnabled)
    \/ ~c.Listen /\ ~c.ReverseTunnelEnabled
         /\ (c.Host = "" \/ (c.Port = 0 /\ c.Ports = <<>>))
    \/ c.ReverseTunnelEnabled
         /\ (~c.Listen \/ c.RemotePort \notin 1..65535 \/ c.ReverseTunnelHost = ""
               \/ c.UDP \/ c.TunnelEnabled)
    \/ c.Execute # "" /\ c.Command # ""
    \/ c.UDP /\ (c.TunnelEnabled \/ c.ReverseTunnelEnabled)

\* C28: Validate rejects every configuration that breaks one of the listed
\* invariants, with a ConfigError whose field is not empty.
C28_ValidateRejects ==
    (cf.pc = "validated" /\ ViolatesInvariant(cf.cfg))
        => (cf.verr.kind = "ConfigError" /\ cf.verr.Field # "")

\* A reverse tunnel with UDP, valid in every other respect, was rejected on
\* the field udp.
C28_Witness ==
    /\ cf.pc = "validated"
    /\ cf.cfg.ReverseTunnelEnabled /\ cf.cfg.Listen /\ cf.cfg.UDP
    /\ cf.cfg.LocalPort = 8080 /\ cf.cfg.RemotePort = 9000
    /\ cf.cfg.ReverseTunnelHost = "gateway"
    /\ ~cf.cfg.ZeroIO /\ ~cf.cfg.TunnelEnabled
    /\ cf.cfg.Execute = ""
    /\ cf.verr = ConfigError("udp", "reverse tunnel does not support UDP")

Ascending(a, b) == [k \in 1..(b - a + 1) |-> a + k - 1]
RECURSIVE ConcatAscending(_)
ConcatAscending(ports) ==
    IF ports = <<>> THEN <<>>
    ELSE ConcatAscending(SubSeq(ports, 1, Len(ports) - 1))
             \o Ascending(ports[Len(ports)].Start, ports[Len(ports)].End)
RECURSIVE TotalPorts(_)
TotalPorts(ports) ==
    IF ports = <<>> THEN 0
    ELSE TotalPorts(Tail(ports)) + (ports[1].End - ports[1].Start + 1)

\* C29: an argument "a-b" that has been parsed gave the range (a, b) when
\* 1 <= a <= b <= 65535 and was rejected otherwise; the ports of the parsed
\* ranges are, range after range in the configured order, a, a+1, ..., b:
\* b-a+1 ports each.
C29_PortRanges ==
    /\ \A i \in 1..Len(ps.args) : \A a \in PortNumbers, b \in PortNumbers :
          (/\ ps.args[i] = RangeSpec(a, b)
           /\ (i < ps.i \/ (ps.pc = "failed" /\ i = ps.i)))
          => IF 1 <= a /\ a <= b /\ b <= 65535
             THEN /\ i <= Len(ps.Ports)
                  /\ ps.Ports[i] = PortRange(a, b)
                  /\ ~(ps.pc = "failed" /\ i = ps.i)
             ELSE /\ ps.pc = "failed"
                  /\ ps.i = i
                  /\ ps.err # ""
                  /\ Len(ps.Ports) = i - 1
    /\ ps.pc = "expanded"
          => /\ ps.all = ConcatAscending(ps.Ports)
             /\ Len(ps.all) = TotalPorts(ps.Ports)
             /\ Len(ps.Ports) = Len(ps.args)

\* The ranges "65535-65535" and "1-3" were parsed and expanded, in that
\* order.
C29_Witness ==
    /\ ps.args = <<RangeSpec(65535, 65535), RangeSpec(1, 3)>>
    /\ ps.Ports = <<PortRange(65535, 65535), PortRange(1, 3)>>
    /\ ps.pc = "expanded"
    /\ ps.all = <<65535, 1, 2, 3>>

\* C30: reconnect first closes the current listener and client and sets
\* both fields to nil; it makes at most maxAttempts attempts, the wait
\* after the n-th failure being min(2^(n-1), maxBackoff) seconds; once the
\* token is cancelled no attempt is begun and the head of the loop returns
\* the error; a successful attempt installs its client and listener and
\* starts the keepalive loop when KeepAlive is configured; after
\* maxAttempts failures reconnect returns an error and the accept loop
\* exits.
C30_Reconnect ==
    /\ [][(al.pc = "reconnect" /\ al'.pc # "reconnect")
            => /\ al'.pc = "r_check" /\ al'.attempt = 1 /\ al'.backoff = 1
               /\ listener' = Nil /\ client' = Nil
               /\ listener # Nil => lnState'[listener] = "closed"
               /\ client # Nil => clients'[client].st = "closed"]_vars
    /\ [](al.pc \in {"r_check", "r_dial", "r_listen"}
            => /\ al.attempt \in 1..(maxAttempts + 1)
               /\ al.pc # "r_check" => al.attempt <= maxAttempts
               /\ al.backoff = Min(2 ^ (al.attempt - 1), maxBackoff)
               /\ listener = Nil /\ client = Nil)
    /\ [][(al.pc \in {"r_dial", "r_listen"} /\ al'.pc = "r_check")
            => /\ al'.attempt = al.attempt + 1
               /\ al'.backoff = Min(2 * al.backoff, maxBackoff)]_vars
    /\ [][(cancelled /\ al'.pc = "r_dial") => al.pc = "r_dial"]_vars
    /\ [][(cancelled /\ al.pc = "r_check" /\ al'.pc # "r_check")
            => (al'.pc = "exit" /\ al'.exit # "none")]_vars
    /\ [][(al.pc = "r_listen" /\ al'.pc \notin {"r_listen", "r_check"})
            => /\ al'.pc = "top"
               /\ client' = al.cl /\ listener' = al.cl
               /\ lnState'[al.cl] = "open" /\ clients'[al.cl].fwd
               /\ IF config.KeepAlive
                  THEN ka'[al.cl].pc = "wait" /\ wg' = wg + 1
                  ELSE ka' = ka /\ wg' = wg]_vars
    /\ [][(al.pc = "r_check" /\ al.attempt > maxAttempts /\ al'.pc # "r_check")
            => (al'.pc = "exit" /\ al'.exit = "reconnect exhausted")]_vars
    /\ [][(al.pc = "exit" /\ al'.pc # "exit") => al'.pc = "done"]_vars

\* Ten attempts have failed, the wait has reached its cap, and reconnect
\* has returned its error to an accept loop that exits, with the token
\* still live.
C30_Witness ==
    /\ al.pc = "exit"
    /\ al.exit = "reconnect exhausted"
    /\ al.attempt = maxAttempts + 1
    /\ al.backoff = maxBackoff
    /\ ~cancelled
    /\ listener = Nil /\ client = Nil

C32_OneKeepalive ==
    Cardinality({k \in ClientIds : ka[k].pc \notin {"none", "done"}}) <= 1

\* C33: a keepalive loop whose request failed closes and clears rt.listener
\* only when that listener belongs to the client the request was sent on
\* (a listener carries the id of its client).
C33_StaleFailureSparesNewListener ==
    [][\A k \in ClientIds :
          (/\ ka[k].pc = "send"
           /\ ka'[k].pc # "send"
           /\ listener # Nil
           /\ (listener' = Nil \/ lnState'[listener] # lnState[listener]))
              => ka[k].cl = listener]_vars

\* C34: once Close() has set rt.closed on a started tunnel no step stores a
\* client or a listener in the tunnel, and once that Close() has returned
\* rt.client and rt.listener are nil.
C34_ClosedStoresNothing ==
    /\ [][(closed /\ start.pc = "ok")
            => /\ client' # client => client' = Nil
               /\ listener' # listener => listener' = Nil]_vars
    /\ []((\E k \in CloserIds :
              closers[k].pc = "done" /\ closers[k].first /\ closers[k].started)
            => (client = Nil /\ listener = Nil))

\* C35: a call of Execute moves the breaker from HalfOpen to Closed only
\* when its success is at least the HalfOpenMax-th in a row among the calls
\* that returned since the breaker became HalfOpen.
C35_ClosesAfterHalfOpenSuccesses ==
    [][(/\ cb.state = "half-open"
        /\ cb'.state = "closed"
        /\ \E p \in CallerIds : callers[p].pc = "running" /\ callers'[p].pc = "idle")
          => obs.succs + 1 >= cb.halfOpenMax]_vars

\* C36: a step that changes the breaker's state calls OnStateChange once,
\* with the state before and the state after, which differ, and with the
\* state the previous call ended in as its from (Closed for the first
\* call); a step that leaves the state alone, such as Reset on a Closed
\* breaker or a failure while Open, calls nothing.  The call is part of
\* the step that holds the lock.
C36_OnStateChangeOncePerChange ==
    [][/\ hook'.n = hook.n + (IF cb'.state # cb.state THEN 1 ELSE 0)
       /\ hook'.n = hook.n => hook' = hook
       /\ hook'.n # hook.n
            => /\ hook'.from = cb.state
               /\ hook'.to = cb'.state
               /\ hook'.from # hook'.to
               /\ hook'.from = hook.to]_vars

\* Five calls of OnStateChange have been made, the last of them by a Reset
\* of an Open breaker, after four or more calls of Execute.
C36_Witness ==
    /\ hook = [n |-> 5, from |-> "open", to |-> "closed"]
    /\ cb.state = "closed"
    /\ cb.failures = 0
    /\ nCalls >= 4

\* C37: the breaker's state is always Closed, Open or HalfOpen; while it is
\* Closed fewer than MaxFailures failures in a row are counted; a call of
\* Reset leaves it Closed with failures = 0 and successes = 0.
C37_BreakerInvariant ==
    /\ [](/\ cb.state \in {"closed", "open", "half-open"}
          /\ cb.state = "closed" => cb.failures < cb.maxFailures
          /\ cb.failures >= 0 /\ cb.successes >= 0)
    /\ [][UNCHANGED <<callers, nCalls, now>>
            => (cb'.state = "closed" /\ cb'.failures = 0 /\ cb'.successes = 0)]_vars

\* A breaker that was opened and Reset is Closed with one failure counted,
\* one short of its MaxFailures, while another callable is running.
C37_Witness ==
    /\ cb.state = "closed"
    /\ cb.maxFailures = 2
    /\ cb.failures = 1
    /\ hook.n >= 2
    /\ hook.from = "open" /\ hook.to = "closed"
    /\ \E p \in CallerIds : callers[p].pc = "running"

\* C38: the tunnel stops being alive only through Close() (which forgets
\* the client) or because the client it holds has ended; the monitor of an
\* earlier client does not clear alive while a later client is open.
C38_AliveFollowsCurrentClient ==
    [][(sshd.alive /\ ~sshd'.alive)
          => (sshd'.client = Nil \/ sshd.clients[sshd.client] # "open")]_vars

\* C39: connections_active is the number of accepted connections whose
\* handleConnection has not returned (never negative, 0 when all have
\* returned, a failed local dial included) and connections_total the
\* number of connections accepted so far.
C39_ConnectionGauge ==
    /\ metrics.connectionsActive >= 0
    /\ metrics.connectionsActive =
          Cardinality({i \in ConnIds : conns[i].pc \in {"dial", "bridge"}})
    /\ metrics.connectionsTotal =
          Cardinality({i \in ConnIds : conns[i].pc \in {"dial", "bridge", "closed"}})

\* Two connections were accepted; one was bridged and has ended, the local
\* dial of the other failed; the gauge is back at 0 on a live tunnel.
C39_Witness ==
    /\ metrics = [connectionsActive |-> 0, connectionsTotal |-> 2,
                  errorsTotal |-> 1, tunnelReconnects |-> 0]
    /\ \A i \in ConnIds : conns[i].pc = "closed"
    /\ ~cancelled
    /\ al.pc = "accept"

\* InitialDelay x Multiplier^n in Do's arithmetic (a Duration after every
\* multiplication), without the cap.
RECURSIVE Grown(_, _, _)
Grown(delay, multiplier, n) ==
    IF n = 0 THEN delay
    ELSE Grown((delay * multiplier.num) \div multiplier.den, multiplier, n - 1)

\* C40: without jitter the wait after the k-th failed attempt is
\* min(InitialDelay x Multiplier^(k-1), MaxDelay), the unset fields taken
\* at their defaults, and so never more than MaxDelay.
C40_WaitSchedule ==
    (bo.pc = "sleep" /\ ~bo.cfg.Jitter)
        => LET initial == IF bo.cfg.InitialDelay = 0 THEN 1000 ELSE bo.cfg.InitialDelay
               multiplier == IF bo.cfg.Multiplier.num <= 0 THEN [num |-> 2, den |-> 1]
                             ELSE bo.cfg.Multiplier
               maxDelay == IF bo.cfg.MaxDelay = 0 THEN 60000 ELSE bo.cfg.MaxDelay
           IN  /\ bo.wait = Min(Grown(initial, multiplier, bo.attempt - 1), maxDelay)
               /\ bo.wait <= maxDelay
====
